---- MODULE Spec2Model ----
(***************************************************************************)
(* Streaming session runtime of the chat client                            *)
(* (src/app/(main)/chat/[chatId]/runtime.ts).                              *)
(*                                                                         *)
(* createChatAdapter.run is an async generator.  One action of this model  *)
(* is one uninterrupted piece of it: from a resumption (first pull, a pull *)
(* after a yield, the continuation of an await) to the next suspension,    *)
(* or one callback that the backend service or the abort signal invokes.   *)
(***************************************************************************)
EXTENDS Integers, Sequences, FiniteSets, TLC

(***************************************************************************)
(* Bounds of the model.                                                    *)
(***************************************************************************)
MaxRuns == 2
MaxEvents == 3
MaxCtlEvents == 2
MaxSessionEvents == 1
MaxArgEvents == 2
MaxHistoryCalls == 2
MaxRerenders == 3
MaxOpens == 3

Runs == 1..MaxRuns

(***************************************************************************)
(* JavaScript values.  undefined and null are values of their own; an      *)
(* object and the text that JSON.stringify makes of it are different       *)
(* values.                                                                 *)
(***************************************************************************)
Undef == "<undefined>"
Null == "<null>"
EmptyObj == "obj{}"
ObjX == "obj{x:1}"
RawText == "x=1"
Num5 == "num5"

Objects == {EmptyObj, ObjX}
RawTexts == {RawText}

\* typeof v
TypeOf(v) ==
  CASE v = Undef -> "undefined"
    [] v = Null -> "object"
    [] v \in Objects -> "object"
    [] v = Num5 -> "number"
    [] OTHER -> "string"

\* JSON.stringify(v, null, 2)
JSONStringify(v) ==
  CASE v = Undef -> Undef
    [] v = Null -> "null"
    [] v = EmptyObj -> "{}"
    [] v = ObjX -> "{\n  \"x\": 1\n}"
    [] v = Num5 -> "5"
    [] OTHER -> "\"" \o v \o "\""

\* a ?? b
Coalesce(a, b) == IF a = Undef \/ a = Null THEN b ELSE a

\* JavaScript truthiness of a string-or-null value
Truthy(v) == v # Undef /\ v # Null /\ v # ""

\* s.trim() of the texts the model uses
Trim(s) == IF s = " " THEN "" ELSE s

(***************************************************************************)
(* Raw tool-call payloads as the backend pushes them.  form says how the   *)
(* payload arrives: an object, JSON text of an object, the JSON text       *)
(* "null", or text that is no JSON.                                        *)
(***************************************************************************)
NoDetails == [defined |-> FALSE, arguments |-> Undef]
Details(a) == [defined |-> TRUE, arguments |-> a]

Payload(form, id, name, det, type, resp) ==
  [form |-> form, call_id |-> id, tool_name |-> name, tool_call_details |-> det,
   event_type |-> type, tool_response |-> resp]

\* typeof toolCallJson === "string" ? JSON.parse(toolCallJson) : toolCallJson,
\* followed by the destructuring of the parsed value
ParseToolCall(p) ==
  CASE p.form = "object" -> [ok |-> TRUE, val |-> p]
    [] p.form = "json" -> [ok |-> TRUE, val |-> [p EXCEPT !.form = "object"]]
    [] OTHER -> [ok |-> FALSE, val |-> p]

\* tool_call_details?.arguments
RawArgsOf(det) == IF det.defined THEN det.arguments ELSE Undef

(***************************************************************************)
(* Map<string, StreamingToolCallPart>: insertion-ordered.                  *)
(***************************************************************************)
EmptyMap == [order |-> <<>>, recs |-> <<>>]

MapHas(m, k) == \E i \in 1..Len(m.order) : m.order[i] = k

MapIndex(m, k) == CHOOSE i \in 1..Len(m.order) : m.order[i] = k

MapGet(m, k) == m.recs[MapIndex(m, k)]

\* mutant: setting a known key moves it to the end
MapSetMovesToEnd(m, k, v) ==
  LET keep == {i \in 1..Len(m.order) : m.order[i] # k}
      Rest(q) == SelectSeq([i \in 1..Len(q) |-> <<i, q[i]>>], LAMBDA e : e[1] \in keep)
  IN [order |-> Append([i \in 1..Len(Rest(m.order)) |-> Rest(m.order)[i][2]], k),
      recs |-> Append([i \in 1..Len(Rest(m.recs)) |-> Rest(m.recs)[i][2]], v)]

\* Map.prototype.set: a known key keeps its place, a new key goes last
MapSet(m, k, v) ==
  IF MapHas(m, k)
  THEN [m EXCEPT !.recs[MapIndex(m, k)] = v]
  ELSE [order |-> Append(m.order, k), recs |-> Append(m.recs, v)]

\* Array.from(map.values())
MapValues(m) == m.recs

NoResult == [event_type |-> Undef, response |-> Undef, details |-> NoDetails]

StreamStateOf(v) ==
  [event_type |-> v.event_type, response |-> v.tool_response,
   details |-> v.tool_call_details]

\* the record used when the map has none for call_id
FreshPart(v) ==
  LET rawArgs == RawArgsOf(v.tool_call_details) IN
  [type |-> "tool-call",
   toolCallId |-> v.call_id,
   toolName |-> v.tool_name,
   args |-> IF TypeOf(rawArgs) = "object" /\ rawArgs # Null THEN rawArgs ELSE EmptyObj,
   argsText |-> IF TypeOf(rawArgs) = "string" THEN rawArgs
                ELSE JSONStringify(Coalesce(rawArgs, EmptyObj)),
   streamState |-> NoResult,
   hasResult |-> FALSE,
   result |-> NoResult,
   isError |-> FALSE]

ArgsValue(previous, rawArgs) ==
  IF rawArgs = Undef THEN previous.args
  ELSE IF TypeOf(rawArgs) = "object" /\ rawArgs # Null THEN rawArgs
  ELSE EmptyObj

\* mutant: the raw-text form is always the JSON serialization
ArgsTextValueAlwaysJson(previous, rawArgs) ==
  IF rawArgs = Undef THEN previous.argsText
  ELSE JSONStringify(rawArgs)

ArgsTextValue(previous, rawArgs) ==
  IF rawArgs = Undef THEN previous.argsText
  ELSE IF TypeOf(rawArgs) = "string" THEN rawArgs
  ELSE JSONStringify(rawArgs)

\* mutant: only "result" is terminal
StreamIsTerminalResultOnly(event_type) == event_type = "result"

\* the event types after which the streaming callback sets next.result
StreamIsTerminal(event_type) == event_type = "result" \/ event_type = "error"

\* the same test in the resume callback
ResumeIsTerminal(event_type) == event_type = "result" \/ event_type = "error"

\* mutant: a non-terminal event keeps the result and the error flag
NextPartKeepsResult(previous, v, terminal) ==
  LET rawArgs == RawArgsOf(v.tool_call_details)
      streamState == StreamStateOf(v)
  IN [previous EXCEPT
        !.streamState = streamState,
        !.toolName = v.tool_name,
        !.args = ArgsValue(previous, rawArgs),
        !.argsText = ArgsTextValue(previous, rawArgs),
        !.hasResult = IF terminal THEN TRUE ELSE @,
        !.result = IF terminal THEN streamState ELSE @,
        !.isError = IF terminal THEN v.event_type = "error" ELSE @]

\* one pass of the forEach body: the record stored for v.call_id
NextPart(previous, v, terminal) ==
  LET rawArgs == RawArgsOf(v.tool_call_details)
      streamState == StreamStateOf(v)
  IN [previous EXCEPT
        !.streamState = streamState,
        !.toolName = v.tool_name,
        !.args = ArgsValue(previous, rawArgs),
        !.argsText = ArgsTextValue(previous, rawArgs),
        !.hasResult = terminal,
        !.result = IF terminal THEN streamState ELSE NoResult,
        !.isError = terminal /\ v.event_type = "error"]

\* mutant: a non-terminal event clears the result of every record
MergeToolCallClearsAll(m, p, terminal) ==
  LET parsed == ParseToolCall(p) IN
  IF ~parsed.ok THEN m
  ELSE LET v == parsed.val
           previous == IF MapHas(m, v.call_id) THEN MapGet(m, v.call_id)
                       ELSE FreshPart(v)
           cleared == IF terminal THEN m
                      ELSE [m EXCEPT !.recs =
                              [i \in DOMAIN m.recs |->
                                 [m.recs[i] EXCEPT !.hasResult = FALSE,
                                                   !.result = NoResult,
                                                   !.isError = FALSE]]]
       IN MapSet(cleared, v.call_id, NextPart(previous, v, terminal))

MergeToolCall(m, p, terminal) ==
  LET parsed == ParseToolCall(p) IN
  IF ~parsed.ok THEN m
  ELSE LET v == parsed.val
           previous == IF MapHas(m, v.call_id) THEN MapGet(m, v.call_id)
                       ELSE FreshPart(v)
       IN MapSet(m, v.call_id, NextPart(previous, v, terminal))

\* tool_calls.forEach of the streamMessage callback
RECURSIVE StreamMergeAll(_, _)
StreamMergeAll(m, batch) ==
  IF batch = <<>> THEN m
  ELSE StreamMergeAll(
         MergeToolCall(m, Head(batch),
                       StreamIsTerminal(ParseToolCall(Head(batch)).val.event_type)),
         Tail(batch))

\* tool_calls.forEach of the resumeWithCursor callback
RECURSIVE ResumeMergeAll(_, _)
ResumeMergeAll(m, batch) ==
  IF batch = <<>> THEN m
  ELSE ResumeMergeAll(
         MergeToolCall(m, Head(batch),
                       ResumeIsTerminal(ParseToolCall(Head(batch)).val.event_type)),
         Tail(batch))


(***************************************************************************)
(* Content of one update.                                                  *)
(***************************************************************************)
ReasoningPart(t) == [type |-> "reasoning", text |-> t]
TextPart(t) == [type |-> "text", text |-> t]

\* the content array of the yields of streamAsyncIterable
StreamContent(thinking, m, text) ==
  (IF Truthy(thinking) THEN <<ReasoningPart(thinking)>> ELSE <<>>)
    \o MapValues(m)
    \o (IF Truthy(text) THEN <<TextPart(text)>> ELSE <<>>)

\* the tool parts pushToQueue keeps: those with a toolCallId and a toolName
KeptTools(parts) == SelectSeq(parts, LAMBDA t : Truthy(t.toolCallId) /\ Truthy(t.toolName))

\* the content array pushToQueue builds
ResumeContent(text, m, thinking) ==
  (IF Truthy(thinking) /\ Trim(thinking) # "" THEN <<ReasoningPart(thinking)>> ELSE <<>>)
    \o KeptTools(MapValues(m))
    \o <<TextPart(IF Truthy(text) THEN text ELSE "")>>

Chunk(c) == [isNull |-> FALSE, content |-> c]
NullChunk == [isNull |-> TRUE, content |-> <<>>]

\* the chunk of the n-th pushToQueue call of a run
Numbered(chunk, n) == [isNull |-> chunk.isNull, content |-> chunk.content, n |-> n]

(***************************************************************************)
(* What the backend can push.                                              *)
(***************************************************************************)
SessionIds == {"s3", "s4"}
UserText == "hello"

PCallA == Payload("object", "a", "search", Details(ObjX), "call", Undef)
PResultA == Payload("object", "a", "search", NoDetails, "result", "42")
PErrorA == Payload("object", "a", "search", Details(Undef), "error", "boom")
PDelegA == Payload("object", "a", "search", NoDetails, "delegation_result", "sub")
PCallB == Payload("object", "b", "fetch", Details(RawText), "call", Undef)
PResultB == Payload("json", "b", "fetch", NoDetails, "result", "ok")
PGarbage == Payload("garbage", Undef, Undef, NoDetails, Undef, Undef)
PNoId == Payload("object", Undef, "search", NoDetails, "call", Undef)

Event(msg, th, tcs) == [message |-> msg, thinking |-> th, tool_calls |-> tcs]

\* the raw events of the single-run specification
Events ==
  {Event("x", "th", <<>>),
   Event("", " ", <<>>),
   Event("xy", Null, <<>>),
   Event("x", Undef, <<PCallA>>),
   Event("x", Undef, <<PResultA>>),
   Event("x", Undef, <<PErrorA>>),
   Event("x", Undef, <<PDelegA>>),
   Event("x", Undef, <<PCallB>>),
   Event("x", Undef, <<PGarbage, PResultB>>),
   Event("x", Undef, <<PNoId>>),
   Event("x", "th", <<PCallA, PCallB>>)}

\* the raw events of the specification of one run's control
CtlEvents ==
  {Event("", Undef, <<>>),
   Event("xy", "th", <<PResultA>>)}

\* the values tool_call_details.arguments can have (Undef: no such field)
ArgValues == {Undef, Null, ObjX, RawText, Num5}

PArgs(a) == Payload("object", "a", "search", Details(a), "call", Undef)
PNoName == Payload("object", "a", Undef, NoDetails, "call", Undef)

\* the raw events of the specification of arguments and names: one payload
\* for "a" each
ArgEvents ==
  {Event("x", Undef, <<PArgs(a)>>) : a \in ArgValues} \cup {Event("x", Undef, <<PNoName>>)}

\* the raw events of the specification of overlapping runs
SessionEvents == {Event("x", Undef, <<>>)}

\* the conversation ids useChatRuntime is called with, first to last
ChatIds == <<"c1", "c2">>

\* the active sessions detection can find
ActiveSessions ==
  {[sessionId |-> "s1", cursor |-> Undef], [sessionId |-> "s2", cursor |-> "5-0"]}

\* what ChatService.detectActiveSession can resolve with: null, or a session
\* with a status
NoSession == [found |-> FALSE, sessionId |-> Undef, cursor |-> Undef, status |-> Undef]
SessionInfo(sid, cursor, status) ==
  [found |-> TRUE, sessionId |-> sid, cursor |-> cursor, status |-> status]

QueryResults ==
  {NoSession,
   SessionInfo("s1", "5-0", "active"),
   SessionInfo("s2", Undef, "completed")}

(***************************************************************************)
(* History: stored messages and their conversion for the thread.           *)
(***************************************************************************)
\* the JS booleans as values of an optional property
JsTrue == "<true>"
JsFalse == "<false>"

HNoDetails == [defined |-> FALSE, arguments |-> Undef, summary |-> Undef]
HDetails(a, sum) == [defined |-> TRUE, arguments |-> a, summary |-> sum]

\* a ToolCall of the API
HCall(id, name, det, type, resp, complete) ==
  [call_id |-> id, tool_name |-> name, tool_call_details |-> det,
   event_type |-> type, tool_response |-> resp, is_complete |-> complete]

\* a property of { ...existing, ...tc }: tc's when tc has it
Spread(e, t) == IF t = Undef THEN e ELSE t

\* a ?? b for tool_call_details
CoalesceDetails(a, b) == IF a.defined THEN a ELSE b

\* mutant: every later event replaces the stored entry
DedupeIsTerminalAny(event_type) == TRUE

\* the event types for which dedupeToolCalls replaces the stored entry
DedupeIsTerminal(event_type) ==
  event_type = "result" \/ event_type = "delegation_result" \/ event_type = "error"

\* the entry dedupeToolCalls stores when it merges tc into existing
DedupeMerge(existing, tc) ==
  [call_id |-> Spread(existing.call_id, tc.call_id),
   tool_name |-> Spread(existing.tool_name, tc.tool_name),
   event_type |-> Spread(existing.event_type, tc.event_type),
   tool_response |-> tc.tool_response,
   tool_call_details |-> CoalesceDetails(tc.tool_call_details, existing.tool_call_details),
   is_complete |-> Coalesce(tc.is_complete, existing.is_complete)]

\* the loop of dedupeToolCalls over the rest of the list, byId being the map
RECURSIVE DedupeLoop(_, _)
DedupeLoop(byId, toolCalls) ==
  IF toolCalls = <<>> THEN byId
  ELSE LET tc == Head(toolCalls) IN
       DedupeLoop(
         IF ~MapHas(byId, tc.call_id) THEN MapSet(byId, tc.call_id, tc)
         ELSE IF DedupeIsTerminal(tc.event_type)
              THEN MapSet(byId, tc.call_id, DedupeMerge(MapGet(byId, tc.call_id), tc))
              ELSE byId,
         Tail(toolCalls))

dedupeToolCalls(toolCalls) == MapValues(DedupeLoop(EmptyMap, toolCalls))

\* mutant: the part of a stored error event is flagged as an error
apiToolCallToPartFlagsError(tc) ==
  [type |-> "tool-call",
   toolCallId |-> tc.call_id,
   toolName |-> tc.tool_name,
   args |-> EmptyObj,
   argsText |-> JSONStringify(EmptyObj),
   result |-> [event_type |-> tc.event_type,
               response |-> tc.tool_response,
               details |-> HDetails(Undef, "")],
   isError |-> tc.event_type = "error"]

\* the part of a history tool call
apiToolCallToPart(tc) ==
  LET rawArgs == RawArgsOf(tc.tool_call_details) IN
  [type |-> "tool-call",
   toolCallId |-> tc.call_id,
   toolName |-> tc.tool_name,
   args |-> IF TypeOf(rawArgs) = "object" /\ rawArgs # Null THEN rawArgs ELSE EmptyObj,
   argsText |-> IF TypeOf(rawArgs) = "string" THEN rawArgs
                ELSE JSONStringify(Coalesce(rawArgs, EmptyObj)),
   result |-> [event_type |-> tc.event_type,
               response |-> tc.tool_response,
               details |-> IF tc.tool_call_details.defined
                           THEN HDetails(tc.tool_call_details.arguments,
                                         Coalesce(tc.tool_call_details.summary, ""))
                           ELSE HDetails(Undef, "")],
   isError |-> FALSE]

\* a BackendMessage: sender, text, thinking and tool_calls
Message(sender, text, thinking, tcs) ==
  [sender |-> sender, text |-> text, thinking |-> thinking, tool_calls |-> tcs]

\* the content of the ThreadMessage convertToThreadMessage returns
convertToThreadMessage(msg) ==
  IF msg.sender = "user"
  THEN <<TextPart(IF Truthy(msg.text) THEN msg.text ELSE "")>>
  ELSE (IF Truthy(msg.thinking) /\ Trim(msg.thinking) # ""
        THEN <<ReasoningPart(msg.thinking)>> ELSE <<>>)
       \o (IF msg.tool_calls # Undef /\ Len(msg.tool_calls) > 0
           THEN [i \in 1..Len(dedupeToolCalls(msg.tool_calls)) |->
                   apiToolCallToPart(dedupeToolCalls(msg.tool_calls)[i])]
           ELSE <<>>)
       \o <<TextPart(IF Truthy(msg.text) THEN msg.text ELSE "")>>

\* the stored tool-call events
HCallA == HCall("a", "search", HDetails(ObjX, Undef), "call", Undef, Undef)
HResultA == HCall("a", "search", HNoDetails, "result", "42", JsTrue)
HErrorA == HCall("a", "search", HDetails(RawText, "failed"), "error", "boom", Undef)
HDelegB == HCall("b", "fetch", HNoDetails, "delegation_result", "sub", Undef)
HCallB == HCall("b", "fetch", HDetails(Undef, Undef), "call", Undef, JsFalse)

HistoryCalls == {HCallA, HResultA, HErrorA, HDelegB, HCallB}

\* the lists of at most n stored tool-call events
RECURSIVE CallLists(_)
CallLists(n) ==
  IF n = 0 THEN {<<>>}
  ELSE CallLists(n - 1)
         \cup {Append(l, c) : l \in {k \in CallLists(n - 1) : Len(k) = n - 1},
                              c \in HistoryCalls}

\* the stored messages
HistoryMessages ==
  {Message("user", t, Undef, Undef) : t \in {Undef, "hi"}}
    \cup {Message("assistant", "ok", th, l) :
            th \in {Undef, " ", "th"}, l \in CallLists(MaxHistoryCalls)}
    \cup {Message("assistant", Undef, Null, Undef)}

NoHistory ==
  [msg |-> Message("assistant", Undef, Undef, Undef), loaded |-> FALSE,
   unique |-> <<>>, content |-> <<>>]

(***************************************************************************)
(* State.                                                                  *)
(*   streamingState    streamingStateRef.current                           *)
(*   resumeSessionRef  resumeSessionRef.current                            *)
(*   bgState, bgRef    isBackgroundTaskActive and its ref                  *)
(*   threadLast        role of the last message of the thread              *)
(*   resumeJob         position of resumeActiveSession                     *)
(*   run               per run() call: its locals and where it stands      *)
(*   obs               per run() call: what its consumer and the backend   *)
(*                     have seen of it                                     *)
(*   nextRun, nEvents  the runs started and the raw events pushed so far   *)
(*   chatId            the conversation id useChatRuntime is called with   *)
(*   history           a stored message and what the history adapter makes *)
(*                     of it                                               *)
(*   pending           usePendingMessageHandler: the store's pending       *)
(*                     message, the hook's ref and its send job            *)
(*   popup             useGithubAppPopup: its refs, the timers it started  *)
(*                     and the windows it opened                           *)
(***************************************************************************)
VARIABLES streamingState, resumeSessionRef, bgState, bgRef, threadLast,
          resumeJob, run, obs, nextRun, nEvents, chatId, history, pending, popup

vars == <<streamingState, resumeSessionRef, bgState, bgRef, threadLast,
          resumeJob, run, obs, nextRun, nEvents, chatId, history, pending, popup>>

\* the state of useChatRuntime and of the adapter it creates
runtimeVars == <<streamingState, resumeSessionRef, bgState, bgRef, threadLast,
                 resumeJob, run, obs, nextRun, nEvents, chatId, history>>

NoResume == [set |-> FALSE, sessionId |-> Undef, cursor |-> Undef]
NoCall == [op |-> "none", sessionId |-> Undef, cursor |-> Undef, text |-> Undef]

\* the locals of a run() call before it is made
IdleRun ==
  [mode |-> "none", pc |-> "idle", outcome |-> "none", chatId |-> Undef,
   signalAborted |-> FALSE, listener |-> FALSE, aborted |-> FALSE,
   hasUpdate |-> FALSE, streamFinished |-> FALSE, waitForUpdate |-> "pending",
   threw |-> FALSE, next |-> NullChunk,
   text |-> "", thinking |-> Null, tools |-> EmptyMap,
   queue |-> <<>>, resolveSet |-> FALSE, finished |-> FALSE,
   call |-> NoCall, callState |-> "none", nCalls |-> 0, pushed |-> 0,
   error |-> Undef]

IdleObs ==
  [delivered |-> NullChunk, nYields |-> 0, yieldAfterAbort |-> FALSE,
   abortInProgress |-> FALSE, abortBeforeSettle |-> FALSE, stopCalls |-> 0,
   firstSeen |-> <<>>, everTerminal |-> {}, nApplied |-> 0, lastEvent |-> Event("", Undef, <<>>),
   reqAtStart |-> NoResume, kindAtStart |-> "none",
   overlapAtStart |-> FALSE, resolvedWith |-> Undef, deliveredN |-> 0]

\* usePendingMessageHandler just mounted: pendingMessage m in the store,
\* chatId c
PendingAt(m, c) ==
  [message |-> m, chatId |-> c, hasSentPendingMessage |-> FALSE, stale |-> TRUE,
   pc |-> "idle", outcome |-> "none", nSends |-> 0, nChanges |-> 0]

\* windows, intervals and timeouts of useGithubAppPopup, numbered by the
\* openGithubPopup call that made them
Opens == 1..MaxOpens

\* useGithubAppPopup just mounted
PopupAt(provider, cb) ==
  [provider |-> provider, onInstalled |-> cb, mounted |-> TRUE,
   popupRef |-> 0, intervalRef |-> 0, timeoutRef |-> 0,
   windows |-> {}, closed |-> {}, intervals |-> {}, timeouts |-> {}, nOpens |-> 0,
   dispatched |-> [w \in Opens |-> 0],
   scheduled |-> [w \in Opens |-> 0],
   invoked |-> [w \in Opens |-> 0]]

\* useRef initial values of useChatRuntime
InitRuntime ==
  /\ streamingState = [sessionId |-> Null, currentCursor |-> "0-0", isStreaming |-> FALSE,
                       isReconnecting |-> FALSE, reconnectAttempts |-> 0]
  /\ resumeSessionRef = NoResume
  /\ bgState = FALSE
  /\ bgRef = FALSE
  /\ threadLast = "empty"
  /\ resumeJob = [pc |-> "idle", run |-> 0, chatId |-> Undef, isMounted |-> TRUE,
                  activeSession |-> NoSession]
  /\ run = [r \in Runs |-> IdleRun]
  /\ obs = [r \in Runs |-> IdleObs]
  /\ nextRun = 1
  /\ nEvents = 0
  /\ chatId = ChatIds[1]

\* the runtime of a conversation without stored messages
Init ==
  /\ InitRuntime
  /\ history = NoHistory
  /\ pending = PendingAt(Null, Null)
  /\ popup = PopupAt("github", FALSE)

\* the runtime of a conversation whose last stored message is msg
InitHistory ==
  /\ InitRuntime
  /\ \E msg \in HistoryMessages : history = [NoHistory EXCEPT !.msg = msg]
  /\ pending = PendingAt(Null, Null)
  /\ popup = PopupAt("github", FALSE)

\* usePendingMessageHandler mounted with a pending message or none, with the
\* conversation id known or not yet
InitPending ==
  /\ InitRuntime
  /\ history = NoHistory
  /\ popup = PopupAt("github", FALSE)
  /\ \E m \in {Null, "m1"}, c \in {Null, "c1"} : pending = PendingAt(m, c)

\* useGithubAppPopup mounted, with or without an onInstalled callback
InitPopup ==
  /\ InitRuntime
  /\ history = NoHistory
  /\ pending = PendingAt(Null, Null)
  /\ \E provider \in {"github", "gitlab"}, cb \in BOOLEAN : popup = PopupAt(provider, cb)

(***************************************************************************)
(* run(): from the call to its first suspension.                           *)
(***************************************************************************)
LastKinds == {"none", "assistant", "userNoText", "userText"}

\* mutant: a user message without a text part is accepted
RunBranchNoTextCheck(resumeRef, bg, kind) ==
  IF resumeRef.set THEN "resume"
  ELSE IF bg THEN "throw"
  ELSE IF kind = "none" \/ kind = "assistant" THEN "throw"
  ELSE "normal"

\* mutant: the background-task guard comes before the resume branch
RunBranchBgFirst(resumeRef, bg, kind) ==
  IF bg THEN "throw"
  ELSE IF resumeRef.set THEN "resume"
  ELSE IF kind = "none" \/ kind = "assistant" THEN "throw"
  ELSE IF kind = "userNoText" THEN "throw"
  ELSE "normal"

\* the branch run() takes, in the order the code tests
RunBranch(resumeRef, bg, kind) ==
  IF resumeRef.set THEN "resume"
  ELSE IF bg THEN "throw"
  ELSE IF kind = "none" \/ kind = "assistant" THEN "throw"
  ELSE IF kind = "userNoText" THEN "throw"
  ELSE "normal"

\* mutant: the session id of the previous run is kept
InitStreamingKeepsSession(st) ==
  [st EXCEPT !.isStreaming = TRUE, !.currentCursor = "0-0"]

\* the message of the Error run() throws in new-message mode, if any
RunError(bg, kind) ==
  IF bg THEN "Background task is active"
  ELSE IF kind = "none" \/ kind = "assistant" THEN "No user message found"
  ELSE IF kind = "userNoText" THEN "Message must contain text"
  ELSE Undef

\* streamingStateRef.current after "Initialize streaming state"
InitStreaming(st) ==
  [st EXCEPT !.isStreaming = TRUE, !.currentCursor = "0-0", !.sessionId = Null]

\* the finally block of streamAsyncIterable
StreamFinally(st) == [st EXCEPT !.isStreaming = FALSE]

\* the ghost ids of an event batch, in order of first appearance
RECURSIVE SeenIds(_, _)
SeenIds(seen, batch) ==
  IF batch = <<>> THEN seen
  ELSE LET p == Head(batch)
           known == \E i \in 1..Len(seen) : seen[i] = p.call_id
       IN SeenIds(IF p.form \in {"object", "json"} /\ ~known
                  THEN Append(seen, p.call_id) ELSE seen,
                  Tail(batch))

\* the ids whose record carries a terminal result
TerminalIds(m) == {m.order[i] : i \in {j \in 1..Len(m.order) : m.recs[j].hasResult}}

\* another run's start-stream call is pending, not canceled, and marked streaming
Overlaps(r) ==
  /\ streamingState.isStreaming
  /\ \E q \in Runs \ {r} :
       /\ run[q].mode = "normal"
       /\ run[q].callState = "pending"
       /\ ~run[q].signalAborted

\* run({ messages, abortSignal }) with ref the value of resumeSessionRef.current
RunStartWith(r, kind, preAborted, ref) ==
  LET branch == RunBranch(ref, bgRef, kind)
      o == [obs[r] EXCEPT !.reqAtStart = ref,
                          !.kindAtStart = kind,
                          !.overlapAtStart = ~ref.set /\ Overlaps(r)]
  IN
  /\ r = nextRun
  /\ r \in Runs
  /\ nextRun' = nextRun + 1
  /\ CASE branch = "resume" ->
            /\ resumeSessionRef' = NoResume
            /\ streamingState' = streamingState
            /\ run' = [run EXCEPT ![r] =
                 [@ EXCEPT !.chatId = chatId, !.mode = "resume", !.pc = "wait", !.resolveSet = TRUE,
                           !.signalAborted = preAborted,
                           !.call = [op |-> "resume",
                                     sessionId |-> ref.sessionId,
                                     cursor |-> ref.cursor,
                                     text |-> Undef],
                           !.callState = "pending",
                           !.nCalls = @ + 1]]
            /\ obs' = [obs EXCEPT ![r] = o]
       [] branch = "throw" ->
            /\ resumeSessionRef' = ref
            /\ streamingState' = streamingState
            /\ run' = [run EXCEPT ![r] =
                 [@ EXCEPT !.chatId = chatId, !.mode = "normal", !.pc = "done", !.outcome = "threw",
                           !.error = RunError(bgRef, kind),
                           !.signalAborted = preAborted]]
            /\ obs' = [obs EXCEPT ![r] = o]
       [] branch = "normal" /\ preAborted ->
            \* abortSignal.aborted: handleAbort, then return before the try block
            /\ resumeSessionRef' = ref
            /\ streamingState' = InitStreaming(streamingState)
            /\ run' = [run EXCEPT ![r] =
                 [@ EXCEPT !.chatId = chatId, !.mode = "normal", !.pc = "done", !.outcome = "returned",
                           !.signalAborted = TRUE, !.aborted = TRUE,
                           !.waitForUpdate = "false"]]
            /\ obs' = [obs EXCEPT ![r] = [o EXCEPT !.stopCalls = @ + 1]]
       [] branch = "normal" /\ ~preAborted ->
            /\ resumeSessionRef' = ref
            /\ streamingState' = InitStreaming(streamingState)
            /\ run' = [run EXCEPT ![r] =
                 [@ EXCEPT !.chatId = chatId, !.mode = "normal", !.pc = "wait", !.listener = TRUE,
                           !.call = [op |-> "stream",
                                     sessionId |-> IF Truthy(InitStreaming(streamingState).sessionId)
                                                   THEN InitStreaming(streamingState).sessionId
                                                   ELSE Undef,
                                     cursor |-> Undef,
                                     text |-> UserText],
                           !.callState = "pending",
                           !.nCalls = @ + 1]]
            /\ obs' = [obs EXCEPT ![r] = o]

\* a caller other than resumeActiveSession (the composer) starts a run
UserSend(r, kind, preAborted) ==
  /\ RunStartWith(r, kind, preAborted, resumeSessionRef)
  /\ UNCHANGED <<pending, popup, history, chatId, bgState, bgRef, threadLast, resumeJob, nEvents>>


(***************************************************************************)
(* New-message mode: streamAsyncIterable and the handlers it registers.    *)
(* A step of the generator is a record [rr, o, st]: the run's locals, what *)
(* its consumer has seen, and streamingStateRef.current.                   *)
(***************************************************************************)
Step(rr, o, st) == [rr |-> rr, o |-> o, st |-> st]

\* mutant: the finally block leaves the abort listener registered
StreamFinishKeepsListener(rr, o, st, outcome) ==
  Step([rr EXCEPT !.pc = "done", !.outcome = outcome], o, StreamFinally(st))

\* the generator leaves through its finally block
StreamFinish(rr, o, st, outcome) ==
  Step([rr EXCEPT !.pc = "done", !.outcome = outcome, !.listener = FALSE],
       o, StreamFinally(st))

\* yield { content: [...] } at the place pcAfter
StreamYield(rr, o, st, pcAfter) ==
  Step([rr EXCEPT !.pc = pcAfter],
       [o EXCEPT !.delivered = Chunk(StreamContent(rr.thinking, rr.tools, rr.text)),
                 !.nYields = @ + 1,
                 !.yieldAfterAbort = @ \/ rr.signalAborted],
       st)

HasContent(rr) ==
  Truthy(rr.thinking) \/ Len(rr.tools.order) > 0 \/ Truthy(rr.text)

\* mutant: no final yield after the loop
StreamAfterLoopNoFinalYield(rr, o, st) == StreamFinish(rr, o, st, "returned")

\* "Final yield after stream completes"
StreamAfterLoop(rr, o, st) ==
  IF ~rr.aborted /\ HasContent(rr)
  THEN StreamYield(rr, o, st, "yieldFinal")
  ELSE StreamFinish(rr, o, st, "returned")

\* the catch blocks of streamAsyncIterable and of run, for a rejected race
StreamCatch(rr, o, st) ==
  IF rr.aborted \/ rr.signalAborted
  THEN StreamFinish(rr, o, st, "returned")
  ELSE StreamFinish(rr, o, st, "threw")

\* while (!streamFinished && !aborted) { await Promise.race([...]) ...
StreamLoopHead(rr, o, st) ==
  IF ~rr.streamFinished /\ ~rr.aborted
  THEN IF rr.waitForUpdate = "rejected"
       THEN StreamCatch(rr, o, st)
       ELSE Step([rr EXCEPT !.pc = "wait"], o, st)
  ELSE StreamAfterLoop(rr, o, st)

\* the code after await Promise.race settles
StreamAfterRace(rr, o, st) ==
  IF rr.threw THEN StreamCatch(rr, o, st)
  ELSE IF rr.aborted THEN StreamFinish(rr, o, st, "returned")
  ELSE IF rr.hasUpdate THEN StreamYield([rr EXCEPT !.hasUpdate = FALSE], o, st, "yieldLoop")
  ELSE StreamLoopHead(rr, o, st)

Apply(r, s) ==
  /\ run' = [run EXCEPT ![r] = s.rr]
  /\ obs' = [obs EXCEPT ![r] = s.o]
  /\ streamingState' = s.st

\* the continuation of await Promise.race
GenStep(r) ==
  /\ run[r].mode = "normal"
  /\ run[r].pc = "ready"
  /\ Apply(r, StreamAfterRace(run[r], obs[r], streamingState))
  /\ UNCHANGED <<pending, popup, history, chatId, resumeSessionRef, bgState, bgRef, threadLast, resumeJob, nextRun, nEvents>>

\* the consumer pulls after a yield of streamAsyncIterable
Pull(r) ==
  /\ run[r].mode = "normal"
  /\ run[r].pc \in {"yieldLoop", "yieldFinal"}
  /\ Apply(r, IF run[r].pc = "yieldLoop"
              THEN StreamLoopHead(run[r], obs[r], streamingState)
              ELSE StreamFinish(run[r], obs[r], streamingState, "returned"))
  /\ UNCHANGED <<pending, popup, history, chatId, resumeSessionRef, bgState, bgRef, threadLast, resumeJob, nextRun, nEvents>>

\* the backend call of the run has not settled: it may still invoke the
\* progress callback, resolve or reject
BackendActive(rr) == rr.callState = "pending"

\* the locals after the progress callback of streamMessage has run
StreamOnEvent(rr, ev) ==
  IF rr.signalAborted \/ rr.aborted THEN rr
  ELSE [rr EXCEPT
          !.text = ev.message,
          !.thinking = IF ev.thinking # Undef THEN Coalesce(ev.thinking, Null) ELSE @,
          !.tools = StreamMergeAll(@, ev.tool_calls),
          !.hasUpdate = TRUE,
          !.waitForUpdate = "pending",
          !.pc = IF @ = "wait" THEN "ready" ELSE @,
          !.threw = IF rr.pc = "wait" THEN FALSE ELSE @]

\* the backend invokes the progress callback of streamMessage
StreamCallback(r, ev, maxEvents) ==
  /\ run[r].mode = "normal"
  /\ BackendActive(run[r])
  /\ nEvents < maxEvents
  /\ nEvents' = nEvents + 1
  /\ run' = [run EXCEPT ![r] = StreamOnEvent(@, ev)]
  /\ obs' = [obs EXCEPT ![r] =
       IF run[r].signalAborted \/ run[r].aborted THEN @
       ELSE [@ EXCEPT !.firstSeen = SeenIds(@, ev.tool_calls),
                      !.everTerminal = @ \cup TerminalIds(run'[r].tools),
                      !.nApplied = @ + 1,
                      !.lastEvent = ev]]
  /\ UNCHANGED <<pending, popup, history, chatId, streamingState, resumeSessionRef, bgState, bgRef, threadLast,
                 resumeJob, nextRun>>

\* streamingStateRef.current after the .then handler of streamMessage
StreamThen(st, sid) == [st EXCEPT !.sessionId = sid, !.isStreaming = FALSE]

\* streamMessage resolves with result.sessionId = sid
StreamResolve(r, sid) ==
  /\ run[r].mode = "normal"
  /\ BackendActive(run[r])
  /\ streamingState' = StreamThen(streamingState, sid)
  /\ run' = [run EXCEPT ![r] =
       [@ EXCEPT !.callState = "resolved",
                 !.streamFinished = TRUE,
                 !.pc = IF @ = "wait" THEN "ready" ELSE @,
                 !.threw = IF run[r].pc = "wait" THEN FALSE ELSE @]]
  /\ obs' = [obs EXCEPT ![r].resolvedWith = sid]
  /\ UNCHANGED <<pending, popup, history, chatId, resumeSessionRef, bgState, bgRef, threadLast, resumeJob,
                 nextRun, nEvents>>

\* mutant: the .catch handler issues the call again
StreamOnRejectRetries(rr) ==
  [rr EXCEPT !.callState = "pending", !.nCalls = @ + 1]

\* the locals after the .catch handler of streamMessage
StreamOnReject(rr) ==
  [rr EXCEPT !.callState = "rejected",
             !.waitForUpdate = IF ~rr.aborted /\ @ = "pending" THEN "rejected" ELSE @,
             !.pc = IF @ = "wait" THEN "ready" ELSE @,
             !.threw = IF rr.pc = "wait" THEN TRUE ELSE @]

\* streamMessage rejects
StreamReject(r) ==
  /\ run[r].mode = "normal"
  /\ BackendActive(run[r])
  /\ streamingState' = [streamingState EXCEPT !.isStreaming = FALSE]
  /\ run' = [run EXCEPT ![r] = StreamOnReject(@)]
  /\ obs' = [obs EXCEPT ![r].abortBeforeSettle = run[r].signalAborted]
  /\ UNCHANGED <<pending, popup, history, chatId, resumeSessionRef, bgState, bgRef, threadLast, resumeJob,
                 nextRun, nEvents>>

\* the locals after handleAbort
HandleAbort(rr) ==
  IF rr.aborted THEN rr
  ELSE [rr EXCEPT !.aborted = TRUE,
                  !.waitForUpdate = IF @ = "pending" THEN "false" ELSE @,
                  !.pc = IF @ = "wait" THEN "ready" ELSE @,
                  !.threw = IF rr.pc = "wait" THEN FALSE ELSE @]

\* the stopMessage calls handleAbort makes
StopCallsOfAbort(rr) == IF rr.aborted THEN 0 ELSE 1

\* the run's abort signal fires
Abort(r) ==
  /\ run[r].mode # "none"
  /\ ~run[r].signalAborted
  /\ run' = [run EXCEPT ![r] =
       IF @.listener THEN [HandleAbort(@) EXCEPT !.signalAborted = TRUE]
       ELSE [@ EXCEPT !.signalAborted = TRUE]]
  /\ obs' = [obs EXCEPT ![r] =
       [@ EXCEPT !.abortInProgress = run[r].pc # "done",
                 !.stopCalls = IF run[r].listener THEN @ + StopCallsOfAbort(run[r]) ELSE @]]
  /\ UNCHANGED <<pending, popup, history, chatId, streamingState, resumeSessionRef, bgState, bgRef, threadLast,
                 resumeJob, nextRun, nEvents>>


(***************************************************************************)
(* Resume mode: the queue bridge between the resumeWithCursor callback and *)
(* the generator loop.                                                     *)
(***************************************************************************)
\* yield of the generator loop of the resume branch
ResumeYield(rr, o, chunk) ==
  Step([rr EXCEPT !.pc = "yielded"],
       [o EXCEPT !.delivered = Chunk(chunk.content),
                 !.deliveredN = chunk.n,
                 !.nYields = @ + 1,
                 !.yieldAfterAbort = @ \/ rr.signalAborted],
       streamingState)

ResumeReturn(rr, o) ==
  Step([rr EXCEPT !.pc = "done", !.outcome = "returned"], o, streamingState)

\* while (true) { if (queue.length > 0) ... else if (finished) ... else await ... }
ResumeLoopHead(rr, o) ==
  IF rr.queue # <<>>
  THEN ResumeYield([rr EXCEPT !.queue = Tail(@)], o, Head(rr.queue))
  ELSE IF rr.finished THEN ResumeReturn(rr, o)
  ELSE Step([rr EXCEPT !.pc = "wait", !.resolveSet = TRUE], o, streamingState)

\* const next = await new Promise(...); if (!next) break; yield next;
ResumeAfterAwait(rr, o) ==
  IF rr.next.isNull THEN ResumeReturn(rr, o)
  ELSE ResumeYield(rr, o, rr.next)

\* mutant: a chunk pushed while the generator is busy is dropped
PushToQueueDropsWhenBusy(rr, chunk) ==
  IF rr.resolveSet
  THEN [rr EXCEPT !.resolveSet = FALSE,
                  !.next = IF rr.pc = "wait" THEN chunk ELSE @,
                  !.pc = IF @ = "wait" THEN "ready" ELSE @]
  ELSE rr

\* pushToQueue: hand the chunk to the waiting generator, or queue it
PushToQueue(rr, chunk) ==
  IF rr.resolveSet
  THEN [rr EXCEPT !.resolveSet = FALSE,
                  !.next = IF rr.pc = "wait" THEN chunk ELSE @,
                  !.pc = IF @ = "wait" THEN "ready" ELSE @]
  ELSE [rr EXCEPT !.queue = Append(@, chunk)]

\* the locals after the progress callback of resumeWithCursor has run
ResumeOnEvent(rr, ev) ==
  LET thinking == IF ev.thinking # Undef THEN Coalesce(ev.thinking, Null) ELSE rr.thinking
      tools == ResumeMergeAll(rr.tools, ev.tool_calls)
  IN PushToQueue([rr EXCEPT !.thinking = thinking, !.tools = tools, !.pushed = @ + 1],
                 Numbered(Chunk(ResumeContent(ev.message, tools, thinking)), rr.pushed + 1))

\* the backend invokes the progress callback of resumeWithCursor
ResumeCallback(r, ev, maxEvents) ==
  /\ run[r].mode = "resume"
  /\ BackendActive(run[r])
  /\ nEvents < maxEvents
  /\ nEvents' = nEvents + 1
  /\ run' = [run EXCEPT ![r] = ResumeOnEvent(@, ev)]
  /\ obs' = [obs EXCEPT ![r] =
       [@ EXCEPT !.firstSeen = SeenIds(@, ev.tool_calls),
                 !.everTerminal = @ \cup TerminalIds(run'[r].tools),
                 !.nApplied = @ + 1,
                 !.lastEvent = ev]]
  /\ UNCHANGED <<pending, popup, history, chatId, streamingState, resumeSessionRef, bgState, bgRef, threadLast,
                 resumeJob, nextRun>>

\* the locals after the .then or .catch handler of resumeWithCursor
ResumeOnSettle(rr, ok) ==
  [rr EXCEPT !.callState = IF ok THEN "resolved" ELSE "rejected",
             !.finished = TRUE,
             !.next = IF rr.resolveSet /\ rr.pc = "wait" THEN NullChunk ELSE @,
             !.pc = IF rr.resolveSet /\ @ = "wait" THEN "ready" ELSE @]

\* resumeWithCursor resolves (ok) or rejects
ResumeSettle(r, ok) ==
  /\ run[r].mode = "resume"
  /\ BackendActive(run[r])
  /\ run' = [run EXCEPT ![r] = ResumeOnSettle(@, ok)]
  /\ obs' = [obs EXCEPT ![r].abortBeforeSettle = run[r].signalAborted]
  /\ UNCHANGED <<pending, popup, history, chatId, streamingState, resumeSessionRef, bgState, bgRef, threadLast,
                 resumeJob, nextRun, nEvents>>

\* the continuation of the await of the generator loop
ResumeGenStep(r) ==
  /\ run[r].mode = "resume"
  /\ run[r].pc = "ready"
  /\ Apply(r, ResumeAfterAwait(run[r], obs[r]))
  /\ UNCHANGED <<pending, popup, history, chatId, resumeSessionRef, bgState, bgRef, threadLast, resumeJob, nextRun, nEvents>>

\* the consumer pulls after a yield of the resume branch
ResumePull(r) ==
  /\ run[r].mode = "resume"
  /\ run[r].pc = "yielded"
  /\ Apply(r, ResumeLoopHead(run[r], obs[r]))
  /\ UNCHANGED <<pending, popup, history, chatId, resumeSessionRef, bgState, bgRef, threadLast, resumeJob, nextRun, nEvents>>

(***************************************************************************)
(* useChatRuntime: the ref that follows isBackgroundTaskActive, the        *)
(* history of the thread, and resumeActiveSession.                         *)
(***************************************************************************)
\* useEffect(() => { isBackgroundTaskActiveRef.current = isBackgroundTaskActive })
SyncBgRef ==
  /\ bgRef # bgState
  /\ bgRef' = bgState
  /\ UNCHANGED <<pending, popup, history, chatId, streamingState, resumeSessionRef, bgState, threadLast, resumeJob,
                 run, obs, nextRun, nEvents>>

\* the history adapter's messages reach the thread
HistoryLoaded(role) ==
  /\ threadLast = "empty"
  /\ threadLast' = role
  /\ UNCHANGED <<pending, popup, history, chatId, streamingState, resumeSessionRef, bgState, bgRef, resumeJob,
                 run, obs, nextRun, nEvents>>

\* resumeSessionRef.current after resumeActiveSession has set it
ResumeRefOf(sid, cursor) ==
  [set |-> TRUE, sessionId |-> sid, cursor |-> IF Truthy(cursor) THEN cursor ELSE "0-0"]

\* mutant: startRun whatever the last message is
ResumeTriggerAnyRole(ref, chat) ==
  /\ RunStartWith(nextRun, "userText", FALSE, ref)
  /\ resumeJob' = [resumeJob EXCEPT !.pc = "running", !.run = nextRun, !.chatId = chat]
  /\ bgState' = TRUE

\* mutant: the skip path leaves the flag set
ResumeTriggerSkipKeepsFlag(ref, chat) ==
  IF threadLast = "user"
  THEN /\ RunStartWith(nextRun, "userText", FALSE, ref)
       /\ resumeJob' = [resumeJob EXCEPT !.pc = "running", !.run = nextRun, !.chatId = chat]
       /\ bgState' = TRUE
  ELSE /\ resumeSessionRef' = ref
       /\ resumeJob' = [resumeJob EXCEPT !.pc = "done", !.run = 0, !.chatId = chat]
       /\ bgState' = TRUE
       /\ UNCHANGED <<streamingState, run, obs, nextRun>>

\* resumeActiveSession from the wait for history on, with the resume ref ref:
\* thread.startRun(lastMsg.id) when the last message is the user's
ResumeTrigger(ref, chat) ==
  IF threadLast = "user"
  THEN /\ RunStartWith(nextRun, "userText", FALSE, ref)
       /\ resumeJob' = [resumeJob EXCEPT !.pc = "running", !.run = nextRun, !.chatId = chat]
       /\ bgState' = TRUE
  ELSE /\ resumeSessionRef' = ref
       /\ resumeJob' = [resumeJob EXCEPT !.pc = "done", !.run = 0, !.chatId = chat]
       /\ bgState' = FALSE
       /\ UNCHANGED <<streamingState, run, obs, nextRun>>

\* resumeActiveSession(sessionInfo, runtime) up to its first await
EnterResume(sid, cursor) ==
  IF threadLast = "empty"
  THEN /\ resumeSessionRef' = ResumeRefOf(sid, cursor)
       /\ bgState' = TRUE
       /\ resumeJob' = [resumeJob EXCEPT !.pc = "waitHistory", !.run = 0, !.chatId = chatId]
       /\ UNCHANGED <<streamingState, run, obs, nextRun>>
  ELSE ResumeTrigger(ResumeRefOf(sid, cursor), chatId)

\* checkAndResume has found an active session and calls resumeActiveSession
ResumeActiveSession(sid, cursor) ==
  /\ resumeJob.pc = "idle"
  /\ EnterResume(sid, cursor)
  /\ UNCHANGED <<pending, popup, history, chatId, bgRef, threadLast, nEvents>>

\* checkAndResume ends without calling resumeActiveSession
CheckEnds ==
  /\ resumeJob' = [resumeJob EXCEPT !.pc = "done", !.run = 0]
  /\ UNCHANGED <<streamingState, resumeSessionRef, bgState, run, obs, nextRun>>

\* setTimeout(checkAndResume, 300) fires: checkAndResume awaits
\* detectActiveSession
CheckTimerFires ==
  /\ resumeJob.pc = "idle"
  /\ resumeJob.isMounted
  /\ resumeJob' = [resumeJob EXCEPT !.pc = "query", !.chatId = chatId]
  /\ UNCHANGED <<pending, popup, history, chatId, streamingState, resumeSessionRef, bgState, bgRef, threadLast,
                 run, obs, nextRun, nEvents>>

\* mutant: a session of any status is resumed
IsActiveAnyStatus(session) == session.found

\* activeSession && activeSession.status === "active"
IsActive(session) == session.found /\ session.status = "active"

\* mutant: the effect's cleanup is not consulted
StillMountedAlways(job) == TRUE

\* isMounted of the effect's closure
StillMounted(job) == job.isMounted

\* detectActiveSession resolves with session
QueryResolves(session) ==
  /\ resumeJob.pc = "query"
  /\ resumeJob' = [resumeJob EXCEPT !.pc = "gotSession", !.activeSession = session]
  /\ UNCHANGED <<pending, popup, history, chatId, streamingState, resumeSessionRef, bgState, bgRef, threadLast,
                 run, obs, nextRun, nEvents>>

\* checkAndResume from the await of detectActiveSession to its next await
CheckContinues ==
  /\ resumeJob.pc = "gotSession"
  /\ IF ~StillMounted(resumeJob) \/ ~IsActive(resumeJob.activeSession)
     THEN CheckEnds
     ELSE IF threadLast = "empty"
     THEN /\ resumeJob' = [resumeJob EXCEPT !.pc = "checkWait"]
          /\ UNCHANGED <<streamingState, resumeSessionRef, bgState, run, obs, nextRun>>
     ELSE EnterResume(resumeJob.activeSession.sessionId, resumeJob.activeSession.cursor)
  /\ UNCHANGED <<pending, popup, history, chatId, bgRef, threadLast, nEvents>>

\* the wait for history of checkAndResume ends: a message arrived or the 5 s
\* timer fired
CheckWaitEnds ==
  /\ resumeJob.pc = "checkWait"
  /\ IF StillMounted(resumeJob)
     THEN EnterResume(resumeJob.activeSession.sessionId, resumeJob.activeSession.cursor)
     ELSE CheckEnds
  /\ UNCHANGED <<pending, popup, history, chatId, bgRef, threadLast, nEvents>>

\* the cleanup of the session-check effect: the component unmounts, or
\* (change) it is rendered with the next conversation id
Cleanup(change) ==
  /\ resumeJob.isMounted
  /\ resumeJob' = [resumeJob EXCEPT !.isMounted = FALSE]
  /\ IF change
     THEN \E i \in 1..(Len(ChatIds) - 1) : chatId = ChatIds[i] /\ chatId' = ChatIds[i + 1]
     ELSE chatId' = chatId
  /\ UNCHANGED <<pending, popup, history, streamingState, resumeSessionRef, bgState, bgRef, threadLast,
                 run, obs, nextRun, nEvents>>


\* resumeActiveSession after its wait for history ends: a message arrived or
\* the 5 s timer fired
ResumeContinue ==
  /\ resumeJob.pc = "waitHistory"
  /\ ResumeTrigger(resumeSessionRef, resumeJob.chatId)
  /\ UNCHANGED <<pending, popup, history, chatId, bgRef, threadLast, nEvents>>

\* resumeActiveSession after await thread.startRun(lastMsg.id)
ResumeRunDone ==
  /\ resumeJob.pc = "running"
  /\ run[resumeJob.run].pc = "done"
  /\ resumeJob' = [resumeJob EXCEPT !.pc = "done"]
  /\ bgState' = FALSE
  /\ UNCHANGED <<pending, popup, history, chatId, streamingState, resumeSessionRef, bgRef, threadLast, run, obs,
                 nextRun, nEvents>>

\* useChatRuntime is re-rendered with the next conversation id: the adapter is
\* made anew for it, the refs and whatever is pending stay
ChangeChat ==
  /\ \E i \in 1..(Len(ChatIds) - 1) : chatId = ChatIds[i] /\ chatId' = ChatIds[i + 1]
  /\ UNCHANGED <<pending, popup, history, streamingState, resumeSessionRef, bgState, bgRef, threadLast,
                 resumeJob, run, obs, nextRun, nEvents>>

\* the history adapter loads the stored message and converts it for the thread
LoadHistory ==
  /\ ~history.loaded
  /\ threadLast = "empty"
  /\ history' = [history EXCEPT
                  !.loaded = TRUE,
                  !.unique = IF history.msg.sender # "user"
                                  /\ history.msg.tool_calls # Undef
                             THEN dedupeToolCalls(history.msg.tool_calls) ELSE <<>>,
                  !.content = convertToThreadMessage(history.msg)]
  /\ threadLast' = IF history.msg.sender = "user" THEN "user" ELSE "assistant"
  /\ UNCHANGED <<pending, popup, streamingState, resumeSessionRef, bgState, bgRef, resumeJob,
                 run, obs, nextRun, nEvents, chatId>>

(***************************************************************************)
(* usePendingMessageHandler.                                               *)
(***************************************************************************)
\* mutant: the effect does not consult hasSentPendingMessage
ShouldSendIgnoresRef(p) == Truthy(p.message) /\ Truthy(p.chatId)

\* the negation of the effect's early return
ShouldSend(p) == Truthy(p.message) /\ Truthy(p.chatId) /\ ~p.hasSentPendingMessage

\* the effect runs: on mount and after a change of its dependencies
PendingEffect ==
  /\ pending.stale
  /\ pending' = IF ShouldSend(pending)
                THEN [pending EXCEPT !.stale = FALSE, !.hasSentPendingMessage = TRUE,
                                     !.pc = "delay", !.outcome = "none"]
                ELSE [pending EXCEPT !.stale = FALSE]
  /\ UNCHANGED <<runtimeVars, popup>>

\* dispatch(clearPendingMessage()): the store's change re-runs the effect
ClearPendingMessage(p) ==
  [p EXCEPT !.message = Null, !.stale = @ \/ p.message # Null]

\* sendPendingMessage after its 100 ms delay, thread saying what runtime.thread
\* offers: no thread, no composer, a composer whose setText throws ("failed")
\* or one that takes the text ("ok")
PendingAfterDelay(thread) ==
  /\ pending.pc = "delay"
  /\ pending' = IF thread = "ok"
                THEN [pending EXCEPT !.pc = "sending", !.nSends = @ + 1]
                ELSE [ClearPendingMessage(pending) EXCEPT !.pc = "done", !.outcome = thread]
  /\ UNCHANGED <<runtimeVars, popup>>

\* composer.send() resolves (ok) or rejects
PendingSendSettles(ok) ==
  /\ pending.pc = "sending"
  /\ pending' = [ClearPendingMessage(pending) EXCEPT
                   !.pc = "done", !.outcome = IF ok THEN "sent" ELSE "failed"]
  /\ UNCHANGED <<runtimeVars, popup>>

\* a dependency of the effect changes: chatId becomes known, the runtime
\* object is made anew, or the store gets a pending message
PendingDepsChange(what) ==
  /\ pending.nChanges < MaxRerenders
  /\ CASE what = "chatId" ->
            /\ pending.chatId = Null
            /\ pending' = [pending EXCEPT !.chatId = "c1", !.stale = TRUE, !.nChanges = @ + 1]
       [] what = "runtime" ->
            pending' = [pending EXCEPT !.stale = TRUE, !.nChanges = @ + 1]
       [] what = "message" ->
            /\ pending.message = Null
            /\ pending' = [pending EXCEPT !.message = "m2", !.stale = TRUE, !.nChanges = @ + 1]
  /\ UNCHANGED <<runtimeVars, popup>>

(***************************************************************************)
(* useGithubAppPopup.  Windows, intervals and timeouts are numbered by the *)
(* openGithubPopup call that made them; 0 stands for null.                 *)
(***************************************************************************)
\* mutant: the ref is reset but the interval keeps running
ClearIntervalKeepsTimer(p) == [p EXCEPT !.intervalRef = 0]

\* if (intervalRef.current) { clearInterval(intervalRef.current); intervalRef.current = null }
ClearInterval(p) ==
  IF p.intervalRef # 0
  THEN [p EXCEPT !.intervals = @ \ {p.intervalRef}, !.intervalRef = 0]
  ELSE p

\* if (timeoutRef.current) { clearTimeout(timeoutRef.current); timeoutRef.current = null }
ClearTimeout(p) ==
  IF p.timeoutRef # 0
  THEN [p EXCEPT !.timeouts = @ \ {p.timeoutRef}, !.timeoutRef = 0]
  ELSE p

\* openGithubPopup(), window.open returning a window (opened) or null
OpenGithubPopup(opened) ==
  /\ popup.mounted
  /\ popup.nOpens < MaxOpens
  /\ LET w == popup.nOpens + 1
         cleared == ClearTimeout(ClearInterval(popup))
     IN popup' =
          IF popup.provider = "gitlab" THEN [popup EXCEPT !.nOpens = w]
          ELSE IF ~opened
          THEN [cleared EXCEPT !.nOpens = w, !.popupRef = 0]
          ELSE [cleared EXCEPT !.nOpens = w, !.popupRef = w, !.windows = @ \cup {w},
                               !.intervalRef = w, !.intervals = @ \cup {w}]
  /\ UNCHANGED <<runtimeVars, pending>>

\* the user closes window w, one openGithubPopup opened
PopupCloses(w) ==
  /\ w \in popup.windows \ popup.closed
  /\ popup' = [popup EXCEPT !.closed = @ \cup {w}]
  /\ UNCHANGED <<runtimeVars, pending>>

\* the callback of interval i runs and finds the window closed
IntervalTick(i) ==
  /\ i \in popup.intervals
  /\ popup.popupRef # 0
  /\ popup.popupRef \in popup.closed
  /\ LET w == popup.popupRef
         stopped == [ClearInterval(popup) EXCEPT !.dispatched[w] = @ + 1]
     IN popup' =
          IF popup.onInstalled
          THEN [stopped EXCEPT !.timeoutRef = w, !.timeouts = @ \cup {w},
                               !.scheduled[w] = @ + 1]
          ELSE stopped
  /\ UNCHANGED <<runtimeVars, pending>>

\* the 2 s timeout t fires: onInstalled()
TimeoutFires(t) ==
  /\ t \in popup.timeouts
  /\ popup' = [popup EXCEPT !.timeouts = @ \ {t}, !.timeoutRef = 0,
                            !.invoked[t] = @ + 1]
  /\ UNCHANGED <<runtimeVars, pending>>

\* the cleanup of the hook's effect at unmount
PopupUnmount ==
  /\ popup.mounted
  /\ popup' = [ClearTimeout(ClearInterval(popup)) EXCEPT !.mounted = FALSE]
  /\ UNCHANGED <<runtimeVars, pending>>

(***************************************************************************)
(* Specification.                                                          *)
(***************************************************************************)
\* the steps of new-message runs and of their backend calls
StreamSteps(runs, events, maxEvents, sids) ==
  \/ \E r \in runs, ev \in events : StreamCallback(r, ev, maxEvents)
  \/ \E r \in runs, sid \in sids : StreamResolve(r, sid)
  \/ \E r \in runs : GenStep(r)
  \/ \E r \in runs : Pull(r)

\* the steps of resume runs and of their backend calls
ResumeSteps(runs, events, maxEvents) ==
  \/ \E r \in runs, ev \in events : ResumeCallback(r, ev, maxEvents)
  \/ \E r \in runs : ResumeSettle(r, TRUE)
  \/ \E r \in runs : ResumeGenStep(r)
  \/ \E r \in runs : ResumePull(r)

RunSteps(runs, events, maxEvents, sids) ==
  \/ StreamSteps(runs, events, maxEvents, sids)
  \/ ResumeSteps(runs, events, maxEvents)

\* failures of the backend call and cancellations by the consumer
Disturbances(runs) ==
  \/ \E r \in runs : StreamReject(r)
  \/ \E r \in runs : ResumeSettle(r, FALSE)
  \/ \E r \in runs : Abort(r)

\* Reconciliation and content: one run() call that is neither canceled nor
\* fails, started by the composer or by resumeActiveSession once the history
\* is there.
NextStream ==
  \/ threadLast # "empty" /\ UserSend(1, "userText", FALSE)
  \/ RunSteps({1}, Events, MaxEvents, {"s3"})
  \/ HistoryLoaded("user")
  \/ threadLast # "empty" /\ ResumeActiveSession("s1", "5-0")

SpecStream == Init /\ [][NextStream]_vars

\* Arguments and names of one tool call: one run() call as in SpecStream,
\* fed with payloads for one identifier.
NextArgs ==
  \/ threadLast # "empty" /\ UserSend(1, "userText", FALSE)
  \/ RunSteps({1}, ArgEvents, MaxArgEvents, {"s3"})
  \/ HistoryLoaded("user")
  \/ threadLast # "empty" /\ ResumeActiveSession("s1", "5-0")

SpecArgs == Init /\ [][NextArgs]_vars

\* Control of one run() call: cancellation, failure, completion.
Next ==
  \/ \E kind \in LastKinds, pre \in BOOLEAN : UserSend(1, kind, pre)
  \/ RunSteps({1}, CtlEvents, MaxCtlEvents, {"s3"})
  \/ Disturbances({1})
  \/ SyncBgRef
  \/ \E role \in {"user", "assistant"} : HistoryLoaded(role)
  \/ \E s \in ActiveSessions : ResumeActiveSession(s.sessionId, s.cursor)
  \/ ResumeContinue
  \/ ResumeRunDone
  \/ ChangeChat

Spec == Init /\ [][Next]_vars

\* Up to MaxRuns new-message run() calls of the composer that overlap.
NextSession ==
  \/ \E r \in Runs : UserSend(r, "userText", FALSE)
  \/ StreamSteps(Runs, SessionEvents, MaxSessionEvents, SessionIds)
  \/ \E r \in Runs : StreamReject(r)
  \/ \E r \in Runs : Abort(r)

SpecSession == Init /\ [][NextSession]_vars

\* The background-task guard: turns of the composer arriving before, during
\* and after resume detection, with runs that are neither canceled nor fail.
NextGuard ==
  \/ \E r \in Runs, kind \in LastKinds : UserSend(r, kind, FALSE)
  \/ RunSteps(Runs, SessionEvents, MaxSessionEvents, {"s3"})
  \/ SyncBgRef
  \/ \E role \in {"user", "assistant"} : HistoryLoaded(role)
  \/ ResumeActiveSession("s1", "5-0")
  \/ ResumeContinue
  \/ ResumeRunDone

SpecGuard == Init /\ [][NextGuard]_vars

\* Resume detection from start to end: the backend call of every run settles,
\* the consumer keeps pulling, effects and timers run.
NextBg ==
  \/ \E kind \in LastKinds : UserSend(1, kind, FALSE)
  \/ RunSteps(Runs, SessionEvents, MaxSessionEvents, {"s3"})
  \/ \E r \in Runs : ResumeSettle(r, FALSE)
  \/ SyncBgRef
  \/ \E role \in {"user", "assistant"} : HistoryLoaded(role)
  \/ ResumeActiveSession("s1", "5-0")
  \/ ResumeContinue
  \/ ResumeRunDone

\* the steps of run r that need no further input from the backend's stream
RunProgress(r) ==
  \/ StreamResolve(r, "s3")
  \/ GenStep(r)
  \/ Pull(r)
  \/ ResumeSettle(r, TRUE)
  \/ ResumeGenStep(r)
  \/ ResumePull(r)

SpecBg ==
  /\ Init
  /\ [][NextBg]_vars
  /\ \A r \in Runs : WF_vars(RunProgress(r))
  /\ WF_vars(SyncBgRef)
  /\ WF_vars(ResumeContinue)
  /\ WF_vars(ResumeRunDone)

\* The session check of one mounted conversation, from its timer to the end
\* of the resume it may start, with the cleanup of its effect.
NextDetect ==
  \/ CheckTimerFires
  \/ \E session \in QueryResults : QueryResolves(session)
  \/ CheckContinues
  \/ CheckWaitEnds
  \/ \E change \in BOOLEAN : Cleanup(change)
  \/ \E role \in {"user", "assistant"} : HistoryLoaded(role)
  \/ ResumeContinue
  \/ ResumeRunDone
  \/ SyncBgRef
  \/ ResumeSteps(Runs, SessionEvents, MaxSessionEvents)

SpecDetect == Init /\ [][NextDetect]_vars

\* History: the stored message of a conversation is loaded and converted.
NextHistory == LoadHistory

\* usePendingMessageHandler from mount on.
NextPending ==
  \/ PendingEffect
  \/ \E thread \in {"ok", "noThread", "noComposer", "failed"} : PendingAfterDelay(thread)
  \/ \E ok \in BOOLEAN : PendingSendSettles(ok)
  \/ \E what \in {"chatId", "runtime", "message"} : PendingDepsChange(what)

SpecPending == InitPending /\ [][NextPending]_vars

\* useGithubAppPopup from mount to unmount.
NextPopup ==
  \/ \E opened \in BOOLEAN : OpenGithubPopup(opened)
  \/ \E w \in Opens : PopupCloses(w)
  \/ \E i \in Opens : IntervalTick(i)
  \/ \E t \in Opens : TimeoutFires(t)
  \/ PopupUnmount

SpecPopup == InitPopup /\ [][NextPopup]_vars

SpecHistory == InitHistory /\ [][NextHistory]_vars


(***************************************************************************)
(* Properties.                                                             *)
(***************************************************************************)
\* run r's callback has applied a raw event in this step
Applied(r) == obs[r].nApplied' = obs[r].nApplied + 1

\* the call identifiers of the payloads of a batch that parse
BatchIds(batch) ==
  {batch[i].call_id : i \in {j \in 1..Len(batch) : batch[j].form \in {"object", "json"}}}

\* the payloads of a batch that parse and are for call identifier k
PayloadsFor(batch, k) ==
  {i \in 1..Len(batch) : batch[i].form \in {"object", "json"} /\ batch[i].call_id = k}

KeySet(m) == {m.order[i] : i \in 1..Len(m.order)}

SeqSet(q) == {q[i] : i \in 1..Len(q)}

\* the map holds one record per identifier seen, filed under its identifier
OneRecordPerId(m, seen) ==
  /\ Len(m.recs) = Len(m.order)
  /\ Cardinality(KeySet(m)) = Len(m.order)
  /\ KeySet(m) = SeqSet(seen)
  /\ \A i \in 1..Len(m.order) : m.recs[i].toolCallId = m.order[i]

\* the records of the identifiers the applied event does not name keep their
\* result and error flag
OthersKeepResult(r) ==
  \A k \in KeySet(run[r].tools) \ BatchIds(obs[r].lastEvent'.tool_calls) :
    MapGet(run[r].tools, k).hasResult =>
      /\ MapHas(run[r].tools', k)
      /\ MapGet(run[r].tools', k).hasResult
      /\ MapGet(run[r].tools', k).result = MapGet(run[r].tools, k).result
      /\ MapGet(run[r].tools', k).isError = MapGet(run[r].tools, k).isError

\* C1: after every raw event, in new-message and in resume runs, the map holds
\* exactly one record per call identifier seen, and an event whose payloads
\* are for other identifiers leaves a terminal record's result and error flag
\* as they were.
C1_OneRecordOthersUntouched ==
  [][\A r \in Runs :
       /\ OneRecordPerId(run[r].tools', obs[r].firstSeen')
       /\ Applied(r) => OthersKeepResult(r)]_vars

\* C1 witness: "a" became terminal, then a "call" event for "b" was applied,
\* and "a" is still terminal.
C1_Witness ==
  \E r \in Runs :
    /\ "a" \in obs[r].everTerminal
    /\ obs[r].lastEvent.tool_calls = <<PCallB>>
    /\ MapHas(run[r].tools, "a") /\ MapGet(run[r].tools, "a").hasResult
    /\ MapHas(run[r].tools, "b") /\ ~MapGet(run[r].tools, "b").hasResult


\* position of identifier k in the sequence q (0 when absent)
Pos(q, k) == IF \E i \in 1..Len(q) : q[i] = k
             THEN CHOOSE i \in 1..Len(q) : q[i] = k ELSE 0

\* [reasoning?] then [tool calls in the order seen] then [text?]
WellOrdered(c, seen) ==
  /\ \A i \in 1..Len(c) : c[i].type = "reasoning" => i = 1
  /\ \A i \in 1..Len(c) : c[i].type = "text" => i = Len(c)
  /\ \A i \in 1..Len(c) : c[i].type = "tool-call" => Pos(seen, c[i].toolCallId) > 0
  /\ \A i, j \in 1..Len(c) :
       (i < j /\ c[i].type = "tool-call" /\ c[j].type = "tool-call")
         => Pos(seen, c[i].toolCallId) < Pos(seen, c[j].toolCallId)

\* C2: every update delivered by a run, in new-message and in resume mode, is
\* a reasoning segment (if any) first, then the tool-call records in the order
\* their identifiers were first seen, then the text segment (if any) last.
C2_ContentOrder ==
  \A r \in Runs :
    ~obs[r].delivered.isNull => WellOrdered(obs[r].delivered.content, obs[r].firstSeen)

\* C2 witness: an update with reasoning, the records of "a" and "b" and text,
\* delivered after a repeated event for "a" gave its record a result.
C2_Witness ==
  \E r \in Runs :
    /\ ~obs[r].delivered.isNull
    /\ Len(obs[r].delivered.content) = 4
    /\ obs[r].delivered.content[1].type = "reasoning"
    /\ obs[r].delivered.content[2].type = "tool-call"
    /\ obs[r].delivered.content[2].toolCallId = "a"
    /\ obs[r].delivered.content[2].hasResult
    /\ obs[r].delivered.content[3].type = "tool-call"
    /\ obs[r].delivered.content[3].toolCallId = "b"
    /\ obs[r].delivered.content[4].type = "text"
    /\ obs[r].lastEvent.tool_calls = <<PResultA>>

\* the event types the specification calls terminal
SpecTerminalTypes == {"result", "delegation_result", "error"}

\* every payload of the batch that parses has a non-terminal event type
NonTerminalEvent(batch) ==
  \A i \in 1..Len(batch) :
    batch[i].form \in {"object", "json"} => batch[i].event_type \notin SpecTerminalTypes

LastPayloadFor(batch, k) ==
  batch[CHOOSE i \in PayloadsFor(batch, k) : \A j \in PayloadsFor(batch, k) : j <= i]

\* C7 as claimed: after a payload is applied to X, the record of X carries a
\* terminal result exactly if the payload's event type is "result",
\* "delegation_result" or "error".
C7_TerminalTypes ==
  \A r \in Runs :
    \A k \in BatchIds(obs[r].lastEvent.tool_calls) :
      /\ MapHas(run[r].tools, k)
      /\ MapGet(run[r].tools, k).hasResult
           <=> LastPayloadFor(obs[r].lastEvent.tool_calls, k).event_type \in SpecTerminalTypes


\* C3 as claimed: a run whose cancellation signal fired while it was in
\* progress delivers no update afterwards, does not end by throwing, and has
\* sent the backend stop notification exactly once.
C3_CancelStopsRun ==
  \A r \in Runs :
    obs[r].abortInProgress =>
      /\ ~obs[r].yieldAfterAbort
      /\ run[r].outcome # "threw"
      /\ obs[r].stopCalls <= 1
      /\ run[r].pc = "done" => obs[r].stopCalls = 1

\* C4: a run that found a ResumeRequest pending when it started has called the
\* backend resume operation with that request's session id and cursor, and no
\* start-stream call and no user text, whatever turn it was given.
C4_ResumeDispatch ==
  \A r \in Runs :
    obs[r].reqAtStart.set =>
      /\ run[r].mode = "resume"
      /\ run[r].call = [op |-> "resume",
                        sessionId |-> obs[r].reqAtStart.sessionId,
                        cursor |-> obs[r].reqAtStart.cursor,
                        text |-> Undef]

\* C4 witness: a run started with a ResumeRequest pending, a turn whose last
\* message is not the user's, and the background-task flag set.
C4_Witness ==
  \E r \in Runs :
    /\ obs[r].reqAtStart.set
    /\ obs[r].kindAtStart \in {"none", "assistant"}
    /\ bgRef
    /\ run[r].pc = "wait"
    /\ run[r].call.op = "resume"

\* C5 as claimed: a new-message run started while another run's start-stream
\* call is pending, not canceled and marked streaming is rejected without a
\* backend call, so at most one start-stream call is pending at a time.
C5_SecondRunRejected ==
  /\ \A r \in Runs :
       obs[r].overlapAtStart => (run[r].call.op = "none" /\ run[r].outcome = "threw")
  /\ Cardinality({r \in Runs : run[r].mode = "normal" /\ run[r].callState = "pending"
                               /\ ~run[r].signalAborted}) <= 1

\* the update that reflects the accumulated state of run r
FinalContent(r) ==
  IF run[r].mode = "normal"
  THEN StreamContent(run[r].thinking, run[r].tools, run[r].text)
  ELSE ResumeContent(obs[r].lastEvent.message, run[r].tools, run[r].thinking)

\* run r has ended, uncanceled, after at least one raw event
EndedUncanceled(r) ==
  /\ run[r].pc = "done"
  /\ ~run[r].signalAborted
  /\ obs[r].nApplied >= 1

C9_RejectionOutcome ==
  \A r \in Runs :
    (run[r].pc = "done" /\ run[r].callState = "rejected") =>
      /\ ~run[r].signalAborted => run[r].outcome = "threw"
      /\ obs[r].abortBeforeSettle => run[r].outcome = "returned"

\* C10 as claimed: once every run started so far has terminated, the
\* streaming flag of SessionState is false.
C10_NotStreamingAfterRuns ==
  (nextRun > 1 /\ \A r \in 1..(nextRun - 1) : run[r].pc = "done")
    => ~streamingState.isStreaming

\* resumeActiveSession has ended without starting a run
DetectionSkipped(job) == job.pc = "done" /\ job.run = 0

\* C11 as claimed: a ResumeRequest is consumed by at most one run; once resume
\* detection has ended without starting its run the ResumeRequest is absent,
\* and a run started after that is not dispatched in resume mode.
C11_ResumeRequestSingleUse ==
  [][/\ Cardinality({r \in Runs : obs[r].reqAtStart'.set}) <= 1
     /\ DetectionSkipped(resumeJob') => ~resumeSessionRef'.set
     /\ \A r \in Runs :
          (DetectionSkipped(resumeJob) /\ run[r].pc = "idle" /\ run[r].pc' # "idle")
            => run[r].mode' # "resume"]_vars

\* the last message of the turn fails the validation of new-message mode
BadTurn(kind) == kind \in {"none", "assistant", "userNoText"}

\* C12: a run without a pending ResumeRequest whose turn has no last message,
\* a last message that is not the user's, or a user message without a text
\* part throws at once, never issues a backend call, and leaves SessionState
\* as it was.
C12_ValidationFailsFast ==
  [][\A r \in Runs :
       (run[r].pc' # "idle" /\ ~obs[r].reqAtStart'.set /\ BadTurn(obs[r].kindAtStart')) =>
         /\ run[r].pc' = "done"
         /\ run[r].outcome' = "threw"
         /\ run[r].call' = NoCall
         /\ run[r].callState' = "none"
         /\ run[r].pc = "idle" => streamingState' = streamingState]_vars

\* C12 witness: with no background task and no ResumeRequest, a run given a
\* user message without a text part has thrown.
C12_Witness ==
  \E r \in Runs :
    /\ obs[r].kindAtStart = "userNoText"
    /\ ~obs[r].reqAtStart.set
    /\ ~bgRef
    /\ run[r].outcome = "threw"
    /\ run[r].call = NoCall

\* the updates published by the callback of a run that its consumer has not
\* received yet
PendingUpdates(rr) ==
  IF rr.mode = "resume"
  THEN Len(rr.queue) + (IF rr.pc = "ready" /\ ~rr.next.isNull THEN 1 ELSE 0)
  ELSE IF rr.hasUpdate THEN 1 ELSE 0

\* C13 as claimed: in every run at most one published update is pending, and
\* an update the consumer receives is the one built from the latest
\* accumulated state.
C13_SingleSlotLastWriteWins ==
  [][\A r \in Runs :
       /\ PendingUpdates(run[r]') <= 1
       /\ obs[r].nYields' > obs[r].nYields =>
            obs[r].delivered' = Chunk(FinalContent(r))']_vars

\* C14 as claimed: no update delivered by a run, in new-message or in resume
\* mode, has a reasoning segment whose text is empty once trimmed.
C14_NoBlankReasoning ==
  \A r \in Runs :
    ~obs[r].delivered.isNull =>
      \A i \in 1..Len(obs[r].delivered.content) :
        obs[r].delivered.content[i].type = "reasoning"
          => Trim(obs[r].delivered.content[i].text) # ""

\* C15 as claimed: every update delivered by a run, in new-message or in
\* resume mode, ends with a text segment, even when the text is still empty.
C15_TextSegmentLast ==
  \A r \in Runs :
    ~obs[r].delivered.isNull =>
      /\ Len(obs[r].delivered.content) >= 1
      /\ obs[r].delivered.content[Len(obs[r].delivered.content)].type = "text"

\* the payload parses and names a call identifier
WellFormed(p) == p.form \in {"object", "json"} /\ Truthy(p.call_id)

\* the call identifiers of the well-formed payloads of a batch
GoodIds(batch) ==
  {batch[i].call_id : i \in {j \in 1..Len(batch) : WellFormed(batch[j])}}

\* C16 as claimed: applying a raw event adds records for the identifiers of
\* its well-formed payloads and for nothing else, leaves the record of each
\* such identifier in the state its last payload gives, and does not end the
\* run; no update delivered has a tool-call entry without an identifier.
C16_MalformedDropped ==
  [][\A r \in Runs :
       /\ Applied(r) =>
            /\ KeySet(run[r].tools') = KeySet(run[r].tools) \cup GoodIds(obs[r].lastEvent'.tool_calls)
            /\ \A k \in GoodIds(obs[r].lastEvent'.tool_calls) :
                 MapGet(run[r].tools', k).streamState =
                   StreamStateOf(LastPayloadFor(obs[r].lastEvent'.tool_calls, k))
            /\ run[r].outcome' = run[r].outcome
       /\ ~obs[r].delivered'.isNull =>
            \A i \in 1..Len(obs[r].delivered'.content) :
              obs[r].delivered'.content[i].type = "tool-call"
                => Truthy(obs[r].delivered'.content[i].toolCallId)]_vars

\* the cancellation signal of run r fires in this step
SignalFires(r) == ~run[r].signalAborted /\ run[r].signalAborted'

\* C17 as claimed: when the cancellation signal fires while the consumer of a
\* run is blocked waiting for the next update, the wait is over at once, and
\* the continuation of a canceled wait ends the sequence without delivering a
\* value; in new-message and in resume runs.
C17_CancelUnblocksConsumer ==
  [][\A r \in Runs :
       /\ (SignalFires(r) /\ run[r].pc = "wait") => run[r].pc' = "ready"
       /\ (run[r].signalAborted /\ run[r].pc = "ready" /\ run[r].pc' # "ready") =>
            /\ run[r].pc' = "done"
            /\ obs[r].nYields' = obs[r].nYields]_vars

\* the backend call of the run has settled, or the run was canceled
SettledOrCanceled(rr) == rr.callState \in {"resolved", "rejected"} \/ rr.signalAborted

\* C18 as claimed: once the backend call has settled or the run is canceled,
\* the sequence is never left blocked on a further backend event, so the pulls
\* that remain lead to its end; the end is one outcome, returned or thrown,
\* that never changes, and no update is delivered after it.
C18_FiniteSingleUse ==
  [][\A r \in Runs :
       /\ SettledOrCanceled(run[r]') => run[r].pc' # "wait"
       /\ run[r].pc = "done" =>
            /\ run[r].pc' = "done"
            /\ run[r].outcome \in {"returned", "threw"}
            /\ run[r].outcome' = run[r].outcome
            /\ obs[r].nYields' = obs[r].nYields
            /\ obs[r].delivered' = obs[r].delivered]_vars

\* a run started after run r has not ended yet
LaterRunning(r) == \E q \in Runs : q > r /\ run[q].pc \notin {"idle", "done"}

\* C20 as claimed: a step of a canceled run (a callback, a settle handler, its
\* generator) never changes the session id or the streaming flag of
\* SessionState while a run started after it is still running.
C20_OnlyActiveRunWrites ==
  [][\A r \in Runs :
       (run[r].signalAborted /\ run[r]' # run[r] /\ LaterRunning(r)) =>
         /\ streamingState.sessionId' = streamingState.sessionId
         /\ streamingState.isStreaming' = streamingState.isStreaming]_vars

\* run q is in progress for a conversation other than that of run r
ForeignRunning(r, q) ==
  /\ q # r
  /\ run[q].pc \notin {"idle", "done"}
  /\ run[r].pc # "idle"
  /\ run[q].chatId # run[r].chatId

\* C19 as claimed: a run that consumed a ResumeRequest is a run of the
\* conversation whose resume detection wrote it, and a step of a run of one
\* conversation never changes the session id or the streaming flag while a
\* run of another conversation is in progress.
C19_ConversationIsolation ==
  [][\A r \in Runs :
       /\ obs[r].reqAtStart'.set => run[r].chatId' = resumeJob.chatId'
       /\ \A q \in Runs :
            (run[r]' # run[r] /\ ForeignRunning(r, q)) =>
              /\ streamingState.sessionId' = streamingState.sessionId
              /\ streamingState.isStreaming' = streamingState.isStreaming]_vars

\* the record of identifier k has the same result, error flag and arguments
\* in both maps
SameRecord(m1, m2, k) ==
  /\ MapHas(m2, k)
  /\ MapGet(m2, k).hasResult = MapGet(m1, k).hasResult
  /\ MapGet(m2, k).result = MapGet(m1, k).result
  /\ MapGet(m2, k).isError = MapGet(m1, k).isError
  /\ MapGet(m2, k).args = MapGet(m1, k).args
  /\ MapGet(m2, k).argsText = MapGet(m1, k).argsText

\* C21: after a raw event is applied, every identifier whose last payload in
\* it has a type other than "result", "delegation_result" and "error" is
\* pending (no terminal result, error flag false), and the record of every
\* identifier the event does not name keeps its result, error flag and
\* arguments; in new-message and in resume runs.
C21_NonTerminalResetsOwnRecord ==
  [][\A r \in Runs :
       Applied(r) =>
         /\ \A k \in BatchIds(obs[r].lastEvent'.tool_calls) :
              LastPayloadFor(obs[r].lastEvent'.tool_calls, k).event_type \notin SpecTerminalTypes
                => /\ MapHas(run[r].tools', k)
                   /\ ~MapGet(run[r].tools', k).hasResult
                   /\ MapGet(run[r].tools', k).result = NoResult
                   /\ ~MapGet(run[r].tools', k).isError
         /\ \A k \in KeySet(run[r].tools) \ BatchIds(obs[r].lastEvent'.tool_calls) :
              SameRecord(run[r].tools, run[r].tools', k)]_vars

\* C21 witness: "a" and "b" were terminal, a "call" event for "a" was applied,
\* and now "a" is pending while "b" still carries its result.
C21_Witness ==
  \E r \in Runs :
    /\ {"a", "b"} \subseteq obs[r].everTerminal
    /\ obs[r].lastEvent.tool_calls = <<PCallA>>
    /\ MapHas(run[r].tools, "a") /\ ~MapGet(run[r].tools, "a").hasResult
    /\ MapHas(run[r].tools, "b") /\ MapGet(run[r].tools, "b").hasResult
    /\ MapGet(run[r].tools, "b").result.response = "ok"

\* the number of records the map holds for identifier k
RecordsFor(m, k) == Cardinality({i \in 1..Len(m.order) : m.order[i] = k})

\* C22 as claimed: after a raw event is applied, every identifier whose last
\* payload in it has type "result", "delegation_result" or "error" has one
\* record that carries that payload's response as terminal result, with the
\* error flag set exactly for "error"; a terminal payload without arguments
\* leaves the arguments a previous "call" event gave the record.
C22_TerminalSetsResult ==
  [][\A r \in Runs :
       Applied(r) =>
         \A k \in BatchIds(obs[r].lastEvent'.tool_calls) :
           LET p == LastPayloadFor(obs[r].lastEvent'.tool_calls, k) IN
           p.event_type \in SpecTerminalTypes =>
             /\ RecordsFor(run[r].tools', k) = 1
             /\ MapGet(run[r].tools', k).hasResult
             /\ MapGet(run[r].tools', k).result.response = p.tool_response
             /\ MapGet(run[r].tools', k).isError <=> p.event_type = "error"
             /\ (MapHas(run[r].tools, k) /\ RawArgsOf(p.tool_call_details) = Undef
                 /\ Cardinality(PayloadsFor(obs[r].lastEvent'.tool_calls, k)) = 1) =>
                  /\ MapGet(run[r].tools', k).args = MapGet(run[r].tools, k).args
                  /\ MapGet(run[r].tools', k).argsText = MapGet(run[r].tools, k).argsText]_vars

\* the text of a value that is not an object
TextOf(v) ==
  CASE v \in RawTexts -> v
    [] v = Num5 -> "5"
    [] v = Null -> "null"

\* the only payload of the applied event of run r, which is for identifier k
OnlyPayload(r, k) == LastPayloadFor(obs[r].lastEvent'.tool_calls, k)

\* C23: for every payload applied to an identifier: without an arguments
\* field the record keeps its structured and raw-text arguments; with an
\* object the structured form is that object and the raw-text form its
\* serialization; with any other value the raw-text form is that value and
\* the structured form is empty.
C23_ArgumentsRule ==
  [][\A r \in Runs :
       Applied(r) =>
         \A k \in BatchIds(obs[r].lastEvent'.tool_calls) :
           LET raw == RawArgsOf(OnlyPayload(r, k).tool_call_details)
               rec == MapGet(run[r].tools', k)
           IN Cardinality(PayloadsFor(obs[r].lastEvent'.tool_calls, k)) = 1 =>
                /\ (raw = Undef /\ MapHas(run[r].tools, k)) =>
                     /\ rec.args = MapGet(run[r].tools, k).args
                     /\ rec.argsText = MapGet(run[r].tools, k).argsText
                /\ raw \in Objects =>
                     /\ rec.args = raw
                     /\ rec.argsText = JSONStringify(raw)
                /\ (raw # Undef /\ raw \notin Objects) =>
                     /\ rec.args = EmptyObj
                     /\ rec.argsText = TextOf(raw)]_vars

\* C23 witness: a record received raw-text arguments, then a payload without
\* an arguments field, and still has the raw text and no structured form.
C23_Witness ==
  \E r \in Runs :
    /\ obs[r].nApplied = 2
    /\ obs[r].lastEvent.tool_calls = <<PArgs(Undef)>>
    /\ MapHas(run[r].tools, "a")
    /\ MapGet(run[r].tools, "a").args = EmptyObj
    /\ MapGet(run[r].tools, "a").argsText = RawText

\* the tool-call identifiers present in an update
ToolIds(chunk) ==
  {chunk.content[i].toolCallId :
     i \in {j \in 1..Len(chunk.content) : chunk.content[j].type = "tool-call"}}

\* C25 as claimed: every update a run delivers contains the tool-call
\* identifiers of the update delivered before it, in new-message and in resume
\* mode, also when a payload omits the tool name.
C25_IdentifiersNeverRegress ==
  [][\A r \in Runs :
       (obs[r].nYields' > obs[r].nYields /\ ~obs[r].delivered.isNull) =>
         ToolIds(obs[r].delivered) \subseteq ToolIds(obs[r].delivered')]_vars


\* the identifiers of a list in order of first appearance
RECURSIVE FirstAppearance(_)
FirstAppearance(ids) ==
  IF ids = <<>> THEN <<>>
  ELSE LET front == FirstAppearance(SubSeq(ids, 1, Len(ids) - 1)) IN
       IF ids[Len(ids)] \in SeqSet(front) THEN front
       ELSE Append(front, ids[Len(ids)])

\* the stored tool calls of a loaded assistant message
LoadedCalls ==
  IF history.loaded /\ history.msg.sender # "user" /\ history.msg.tool_calls # Undef
  THEN history.msg.tool_calls ELSE <<>>

Max(S) == CHOOSE x \in S : \A y \in S : y <= x
Min(S) == CHOOSE x \in S : \A y \in S : x <= y

\* C24: dedupeToolCalls returns one entry per distinct call identifier in
\* order of first appearance; the entry is the identifier's first event
\* unless a later event of type "result", "delegation_result" or "error"
\* exists, and then it carries the type, response and name of the last such
\* event; later non-terminal events change nothing.
C24_HistoryDedupe ==
  LET L == LoadedCalls
      U == history.unique
  IN /\ [i \in 1..Len(U) |-> U[i].call_id]
          = FirstAppearance([i \in 1..Len(L) |-> L[i].call_id])
     /\ \A i \in 1..Len(U) :
          LET idx == {j \in 1..Len(L) : L[j].call_id = U[i].call_id}
              first == Min(idx)
              terms == {j \in idx : j > first /\ L[j].event_type \in SpecTerminalTypes}
          IN IF terms = {} THEN U[i] = L[first]
             ELSE /\ U[i].event_type = L[Max(terms)].event_type
                  /\ U[i].tool_response = L[Max(terms)].tool_response
                  /\ U[i].tool_name = L[Max(terms)].tool_name

\* a stored call followed by its result became one entry carrying the result
C24_Witness ==
  /\ history.loaded
  /\ history.msg.tool_calls = <<HCallA, HResultA>>
  /\ Len(history.unique) = 1
  /\ history.unique[1].event_type = "result"
  /\ history.unique[1].tool_call_details = HCallA.tool_call_details

\* C26: when the backend call of a run resolves, streamingState.sessionId is
\* the session of that call: the id streamMessage returned for a new-message
\* run, the resumed session's id for a resume run.
C26_ResolveStoresSession ==
  [][\A r \in Runs :
       run[r].callState = "pending" /\ run'[r].callState = "resolved"
         => streamingState'.sessionId =
              (IF run[r].mode = "normal" THEN obs'[r].resolvedWith
               ELSE run[r].call.sessionId)]_vars

\* C27: a new-message run that passes validation leaves run() with
\* currentCursor "0-0" and sessionId null, and the existing-session id
\* handed to streamMessage is undefined, whatever an earlier run stored.
C27_NewRunResetsSession ==
  [][\A r \in Runs :
       run[r].mode = "none" /\ run'[r].mode = "normal" /\ run'[r].outcome # "threw"
         => /\ streamingState'.currentCursor = "0-0"
            /\ streamingState'.sessionId = Null
            /\ run'[r].callState = "pending"
                 => run'[r].call.op = "stream" /\ run'[r].call.sessionId = Undef]_vars

\* run 2 was started after run 1 had stored the id streamMessage returned
C27_Witness ==
  /\ run[1].callState = "resolved"
  /\ obs[1].resolvedWith \in SessionIds
  /\ run[2].callState = "pending"
  /\ run[2].call.op = "stream"
  /\ run[2].call.sessionId = Undef
  /\ streamingState.sessionId = Null

\* C28: a run issues at most one backend call, exactly one once it has
\* dispatched in either mode; a settled call is never issued again, and the
\* reconnect state is never touched.
C28_OneBackendCall ==
  [][\A r \in Runs :
       /\ run'[r].nCalls <= 1
       /\ run'[r].callState # "none"
            => run'[r].nCalls = 1 /\ run'[r].call.op \in {"stream", "resume"}
       /\ run[r].callState \in {"resolved", "rejected"}
            => run'[r].callState = run[r].callState /\ run'[r].call = run[r].call
       /\ streamingState'.reconnectAttempts = 0
       /\ ~streamingState'.isReconnecting]_vars

\* the start-stream call of a run was rejected and the run ended after that
\* one call
C28_Witness ==
  /\ run[1].mode = "normal"
  /\ run[1].callState = "rejected"
  /\ run[1].pc = "done"
  /\ run[1].outcome = "threw"
  /\ run[1].nCalls = 1

\* resumeActiveSession leaves its wait for history with no message loaded
HistoryWaitExpires ==
  resumeJob.pc = "waitHistory" /\ threadLast = "empty" /\ resumeJob'.pc # "waitHistory"

\* C29: when the wait for history expires no run is started and no
\* ResumeRequest stays pending; a run the user starts after that, the history
\* still being empty, is a new-message run that sends the user's text to
\* streamMessage.
C29_TimeoutMeansNewTurn ==
  [][/\ HistoryWaitExpires
          => /\ nextRun' = nextRun
             /\ DetectionSkipped(resumeJob')
             /\ ~resumeSessionRef'.set
     /\ \A r \in Runs :
          (/\ DetectionSkipped(resumeJob) /\ threadLast = "empty"
           /\ run[r].pc = "idle" /\ run'[r].pc # "idle"
           /\ obs'[r].kindAtStart = "userText" /\ ~bgRef /\ ~run'[r].signalAborted)
            => /\ run'[r].mode = "normal"
               /\ run'[r].call.op = "stream"
               /\ run'[r].call.text = UserText]_vars

\* C30: resume detection starts its run only when the last message of the
\* loaded history is the user's: the run is started on that message as the
\* last of its turn, the thread's last message stays what it was, and with an
\* assistant message last or an empty history the detection ends without a
\* run.
C30_ResumeOnlyAfterUserMessage ==
  [][/\ (resumeJob.pc # "running" /\ resumeJob'.pc = "running")
          => /\ threadLast = "user"
             /\ threadLast' = threadLast
             /\ resumeJob'.run = nextRun /\ nextRun' = nextRun + 1
             /\ run'[resumeJob'.run].pc # "idle"
             /\ obs'[resumeJob'.run].kindAtStart = "userText"
     /\ (resumeJob.pc \in {"idle", "waitHistory"} /\ resumeJob'.pc = "done")
          => /\ threadLast \in {"assistant", "empty"}
             /\ nextRun' = nextRun
             /\ run' = run
     /\ (resumeJob.pc = "idle" /\ resumeJob'.pc = "waitHistory")
          => threadLast = "empty" /\ nextRun' = nextRun /\ run' = run
     /\ resumeJob'.pc # resumeJob.pc => threadLast' = threadLast]_vars

\* the detection found the user's message last and its resume run is under way
C30_Witness ==
  /\ resumeJob.pc = "running"
  /\ threadLast = "user"
  /\ run[resumeJob.run].mode = "resume"
  /\ run[resumeJob.run].call.op = "resume"
  /\ obs[resumeJob.run].nApplied > 0

\* the tool-call parts of the converted message
HistoryToolParts == SelectSeq(history.content, LAMBDA part : part.type = "tool-call")

\* a stored tool-call event as the raw payload of a stream
AsPayload(tc) ==
  Payload("object", tc.call_id, tc.tool_name,
          IF tc.tool_call_details.defined THEN Details(tc.tool_call_details.arguments)
          ELSE NoDetails,
          tc.event_type, tc.tool_response)

\* the records of the streaming reconciler after the stored events
StreamedCalls == StreamMergeAll(EmptyMap, [i \in 1..Len(LoadedCalls) |-> AsPayload(LoadedCalls[i])])

\* C37: every tool-call part built from loaded history carries a result, the
\* one of its deduplicated entry, and has isError false, whatever the stored
\* event type; the streaming reconciler fed the same events leaves an entry
\* whose last event is "call" without result and flags one whose last event
\* is "error".
C37_HistoryPartsTerminal ==
  history.loaded =>
    /\ Len(HistoryToolParts) = Len(history.unique)
    /\ \A i \in 1..Len(HistoryToolParts) :
         LET part == HistoryToolParts[i]
             rec == MapGet(StreamedCalls, part.toolCallId)
             last == LastPayloadFor(
                       [j \in 1..Len(LoadedCalls) |-> AsPayload(LoadedCalls[j])],
                       part.toolCallId)
         IN /\ part.toolCallId = history.unique[i].call_id
            /\ ~part.isError
            /\ part.result.event_type = history.unique[i].event_type
            /\ part.result.response = history.unique[i].tool_response
            /\ part.result.details.defined
            /\ last.event_type = "call" => ~rec.hasResult
            /\ last.event_type = "error" => rec.hasResult /\ rec.isError

\* a stored error and a stored call without result were both converted
C37_Witness ==
  /\ history.loaded
  /\ history.msg.tool_calls = <<HErrorA, HCallB>>
  /\ Len(HistoryToolParts) = 2
  /\ HistoryToolParts[1].result.event_type = "error"
  /\ ~HistoryToolParts[1].isError
  /\ HistoryToolParts[2].result.event_type = "call"
  /\ MapGet(StreamedCalls, "a").isError
  /\ ~MapGet(StreamedCalls, "b").hasResult

\* C32: a run that has ended has no abort listener registered, an abort
\* signal that fires after the end makes no stopMessage call, and a run makes
\* at most one stopMessage call.
C32_ListenerReleased ==
  [][\A r \in Runs :
       /\ run'[r].pc = "done" => ~run'[r].listener
       /\ obs'[r].stopCalls <= 1
       /\ (run[r].pc = "done" /\ ~run[r].signalAborted /\ run'[r].signalAborted)
            => obs'[r].stopCalls = obs[r].stopCalls]_vars

\* the signal of a new-message run fired after the run had completed, and no
\* stopMessage call was made
C32_Witness ==
  /\ run[1].mode = "normal"
  /\ run[1].pc = "done"
  /\ run[1].callState = "resolved"
  /\ obs[1].nYields > 0
  /\ run[1].signalAborted
  /\ ~obs[1].abortInProgress
  /\ obs[1].stopCalls = 0

\* C33: in a resume run every chunk pushToQueue publishes reaches the
\* consumer once and in publication order: each yield delivers the chunk
\* published right after the one delivered before, nothing is delivered that
\* was not published, and the run ends only when the last published chunk has
\* been delivered.
C33_ResumeBridgeLossless ==
  [][\A r \in Runs :
       run'[r].mode = "resume" =>
         /\ obs'[r].deliveredN <= run'[r].pushed
         /\ obs'[r].nYields # obs[r].nYields
              => /\ obs'[r].nYields = obs[r].nYields + 1
                 /\ obs'[r].deliveredN = obs[r].deliveredN + 1
         /\ obs'[r].nYields = obs[r].nYields
              => obs'[r].deliveredN = obs[r].deliveredN
         /\ run'[r].pc = "done" => obs'[r].deliveredN = run'[r].pushed]_vars

\* the resume call has settled while a published chunk is still queued behind
\* the one being delivered
C33_Witness ==
  /\ run[1].mode = "resume"
  /\ run[1].callState \in {"resolved", "rejected"}
  /\ run[1].pushed = 2
  /\ Len(run[1].queue) = 1
  /\ run[1].pc = "yielded"
  /\ obs[1].deliveredN = 1

\* run r starts in this step with no ResumeRequest pending
StartsWithoutRequest(r) ==
  run[r].pc = "idle" /\ run'[r].pc # "idle" /\ ~obs'[r].reqAtStart.set

\* run r has thrown the background-task error without a backend call and
\* without a change of streamingState
BlockedByBackgroundTask(r) ==
  /\ run'[r].pc = "done"
  /\ run'[r].outcome = "threw"
  /\ run'[r].error = "Background task is active"
  /\ run'[r].call = NoCall
  /\ run'[r].nCalls = 0
  /\ streamingState' = streamingState

\* C34 as claimed: a run started with no ResumeRequest pending while the
\* background-task flag isBackgroundTaskActive is set throws the
\* background-task error, whatever its turn, issues no backend call and leaves
\* streamingState as it was.
C34_FlagBlocksNewRun ==
  [][\A r \in Runs : (StartsWithoutRequest(r) /\ bgState) => BlockedByBackgroundTask(r)]_vars

BeforeResume(job) == job.pc \in {"idle", "query", "gotSession", "checkWait"}

\* this step writes no ResumeRequest, leaves the flag alone and starts no run
NoResumeAction ==
  /\ resumeSessionRef' = resumeSessionRef
  /\ bgState' = bgState
  /\ nextRun' = nextRun
  /\ run' = run

\* C31: when detectActiveSession has returned nothing, or a session whose
\* status is not "active", the session check ends there: it writes no
\* ResumeRequest, the flag stays false and no run is started, then and later.
C31_NoActiveSessionNoAction ==
  [][/\ (resumeJob.pc = "gotSession"
           /\ ~(resumeJob.activeSession.found /\ resumeJob.activeSession.status = "active")
           /\ resumeJob'.pc # "gotSession")
          => /\ resumeJob'.pc = "done"
             /\ NoResumeAction
             /\ ~resumeSessionRef'.set /\ ~bgState' /\ nextRun' = 1
     /\ (resumeJob.pc = "done" /\ resumeJob.run = 0)
          => resumeJob'.pc = "done" /\ NoResumeAction]_vars

\* the query found a session that is not active while the history already
\* ends with a user message: nothing was done
C31_Witness ==
  /\ resumeJob.pc = "done"
  /\ resumeJob.isMounted
  /\ resumeJob.activeSession.found
  /\ resumeJob.activeSession.status = "completed"
  /\ threadLast = "user"
  /\ ~resumeSessionRef.set
  /\ ~bgState
  /\ nextRun = 1

\* C36: once the effect's cleanup has run (unmount or change of the
\* conversation id) while the session check has not yet called
\* resumeActiveSession, the check does nothing more: its timer does not
\* fire, and when the query or the wait for history returns it writes no
\* ResumeRequest and starts no run.
C36_CleanupStopsCheck ==
  [][(BeforeResume(resumeJob) /\ ~resumeJob.isMounted)
       => /\ NoResumeAction
          /\ ~resumeSessionRef'.set /\ ~bgState' /\ nextRun' = 1
          /\ resumeJob'.pc \in {resumeJob.pc, "gotSession", "done"}
          /\ resumeJob.pc = "idle" => resumeJob'.pc = "idle"]_vars

\* the conversation id changed during the wait for history, the history of
\* the old conversation then arrived with a user message last, and the check
\* ended without doing anything
C36_Witness ==
  /\ resumeJob.pc = "done"
  /\ ~resumeJob.isMounted
  /\ resumeJob.activeSession.status = "active"
  /\ resumeJob.chatId # chatId
  /\ threadLast = "user"
  /\ ~resumeSessionRef.set
  /\ ~bgState
  /\ nextRun = 1

\* C38: a mounted usePendingMessageHandler calls composer.send() at most once
\* however often its effect re-runs; the step that ends its send job (thread
\* or composer unavailable, send succeeded, send failed) leaves the store
\* without a pending message; and once the job has ended no further job
\* starts, so a failed send is not retried.
C38_PendingSentAtMostOnce ==
  [][ /\ pending'.nSends <= 1
      /\ (pending.pc # "done" /\ pending'.pc = "done"
            => /\ pending'.message = Null
               /\ pending'.outcome \in {"noThread", "noComposer", "sent", "failed"})
      /\ (pending.pc = "done"
            => pending'.pc = "done" /\ pending'.nSends = pending.nSends) ]_vars

\* a send failed, a new pending message arrived afterwards, the effect ran
\* again and nothing was sent
C38_Witness ==
  /\ pending.pc = "done"
  /\ pending.outcome = "failed"
  /\ pending.nSends = 1
  /\ pending.message = "m2"
  /\ pending.chatId = "c1"
  /\ ~pending.stale

\* the intervals and timeouts of useGithubAppPopup that are still scheduled
\* were made for window w
OnlyTimersOf(p, w) == p.intervals \subseteq {w} /\ p.timeouts \subseteq {w}

\* C39: at most one polling interval of useGithubAppPopup is scheduled at any
\* time; a step that detects a closure stops the polling, and a window's
\* closure dispatches "github-app-installed" once and schedules onInstalled
\* at most once; after unmount no interval and no timeout is scheduled; after
\* an openGithubPopup call only the interval that call started is scheduled
\* and no timeout; onInstalled is invoked only while mounted, for the window
\* of the latest openGithubPopup call.
C39_PopupTimersDisciplined ==
  [][ /\ Cardinality(popup'.intervals) <= 1
      /\ \A w \in Opens :
           /\ popup'.dispatched[w] <= 1
           /\ popup'.scheduled[w] <= 1
           /\ popup'.scheduled[w] <= popup'.dispatched[w]
           /\ popup'.invoked[w] <= popup'.scheduled[w]
           /\ (popup'.dispatched[w] # popup.dispatched[w] => popup'.intervals = {})
           /\ (popup'.invoked[w] # popup.invoked[w]
                 => popup.mounted /\ w = popup.nOpens)
      /\ (~popup'.mounted => popup'.intervals = {} /\ popup'.timeouts = {})
      /\ (popup'.nOpens # popup.nOpens
            => popup'.timeouts = {} /\ popup'.intervals \subseteq {popup'.nOpens}) ]_vars

\* a closure was detected and onInstalled scheduled, then openGithubPopup was
\* called again: the earlier callback never ran, the new window's closure
\* was detected and its callback ran
C39_Witness ==
  /\ popup.nOpens >= 2
  /\ popup.dispatched[1] = 1
  /\ popup.scheduled[1] = 1
  /\ popup.invoked[1] = 0
  /\ popup.dispatched[2] = 1
  /\ popup.invoked[2] = 1
  /\ popup.intervals = {}

====
